---- MODULE Spec2Model ----
(***************************************************************************)
(* mdcode: a command-line layer over git.  The model keeps the on-disk     *)
(* state one invocation sees (working tree, index, commit objects, HEAD,   *)
(* tags, remotes, snapshot directories) and one action per library entry   *)
(* point of src/src/lib.rs, plus the user's edits between invocations.     *)
(***************************************************************************)
EXTENDS Integers, Sequences, FiniteSets, TLC

(***************************************************************************)
(* Bounds of the model.                                                    *)
(***************************************************************************)
MaxCommits == 3
MaxNanos == 1
MaxClock == 1

(***************************************************************************)
(* Text and numbers.  A text is the sequence of its characters; a u64 is   *)
(* four 16-bit limbs, most significant first.                              *)
(***************************************************************************)
\* Option<T>: Some(s) or None.
Some(s) == <<s>>
Absent == <<>>

None == "none"

\* u8::to_ascii_uppercase
AsciiUpper(ch) ==
    CASE
      ch = "a" -> "A" [] ch = "b" -> "B" [] ch = "c" -> "C" [] ch = "d" -> "D"
      [] ch = "e" -> "E" [] ch = "f" -> "F" [] ch = "g" -> "G"
      [] ch = "h" -> "H" [] ch = "i" -> "I" [] ch = "j" -> "J"
      [] ch = "k" -> "K" [] ch = "l" -> "L" [] ch = "m" -> "M"
      [] ch = "n" -> "N" [] ch = "o" -> "O" [] ch = "p" -> "P"
      [] ch = "q" -> "Q" [] ch = "r" -> "R" [] ch = "s" -> "S"
      [] ch = "t" -> "T" [] ch = "u" -> "U" [] ch = "v" -> "V"
      [] ch = "w" -> "W" [] ch = "x" -> "X" [] ch = "y" -> "Y"
      [] ch = "z" -> "Z"
      [] OTHER -> ch

\* u8::to_ascii_lowercase
AsciiLower(ch) ==
    CASE
      ch = "A" -> "a" [] ch = "B" -> "b" [] ch = "C" -> "c" [] ch = "D" -> "d"
      [] ch = "E" -> "e" [] ch = "F" -> "f" [] ch = "G" -> "g"
      [] ch = "H" -> "h" [] ch = "I" -> "i" [] ch = "J" -> "j"
      [] ch = "K" -> "k" [] ch = "L" -> "l" [] ch = "M" -> "m"
      [] ch = "N" -> "n" [] ch = "O" -> "o" [] ch = "P" -> "p"
      [] ch = "Q" -> "q" [] ch = "R" -> "r" [] ch = "S" -> "s"
      [] ch = "T" -> "t" [] ch = "U" -> "u" [] ch = "V" -> "v"
      [] ch = "W" -> "w" [] ch = "X" -> "x" [] ch = "Y" -> "y"
      [] ch = "Z" -> "z"
      [] OTHER -> ch

\* char::to_lowercase: the ASCII letters and, of the others, the Kelvin
\* sign (U+212A), whose lower case is the ASCII k.
Lowercase(ch) == IF ch = "KELVIN" THEN "k" ELSE AsciiLower(ch)

\* A comparison that minds the case.
EqExact(s, t) == s = t

\* str::eq_ignore_ascii_case
EqIgnoreAsciiCase(s, t) ==
    /\ Len(s) = Len(t)
    /\ \A i \in 1..Len(s) : AsciiUpper(s[i]) = AsciiUpper(t[i])

\* str::to_uppercase
ToUppercase(s) == [i \in 1..Len(s) |-> AsciiUpper(s[i])]

\* str::to_lowercase
ToLowercase(s) == [i \in 1..Len(s) |-> Lowercase(s[i])]

\* str::split(sep)
RECURSIVE Split(_, _)
Split(s, sep) ==
    IF Len(s) = 0 THEN << <<>> >>
    ELSE LET rest == Split(Tail(s), sep)
         IN  IF Head(s) = sep THEN << <<>> >> \o rest
             ELSE << <<Head(s)>> \o Head(rest) >> \o Tail(rest)

Limb == 65536
HalfLimb == 32768

\* A number below 2^31 as a u64.
ToU64(n) == <<0, 0, n \div Limb, n % Limb>>

U64Max == <<Limb - 1, Limb - 1, Limb - 1, Limb - 1>>

\* a < b on the limbs.
RECURSIVE LimbsLess(_, _)
LimbsLess(a, b) ==
    IF Len(a) = 0 THEN FALSE
    ELSE IF Head(a) # Head(b) THEN Head(a) < Head(b)
    ELSE LimbsLess(Tail(a), Tail(b))

\* u64::wrapping_mul(1024): the bits shifted out of the top limb are lost.
WrappingMul1024(u) ==
    LET p4 == u[4] * 1024
        p3 == u[3] * 1024 + (p4 \div Limb)
        p2 == u[2] * 1024 + (p3 \div Limb)
        p1 == u[1] * 1024 + (p2 \div Limb)
    IN  <<p1 % Limb, p2 % Limb, p3 % Limb, p4 % Limb>>

\* u64::saturating_mul(1024)
SaturatingMul1024(u) ==
    LET p4 == u[4] * 1024
        p3 == u[3] * 1024 + (p4 \div Limb)
        p2 == u[2] * 1024 + (p3 \div Limb)
        p1 == u[1] * 1024 + (p2 \div Limb)
    IN  IF p1 \div Limb > 0 THEN U64Max
        ELSE <<p1 % Limb, p2 % Limb, p3 % Limb, p4 % Limb>>

(***************************************************************************)
(* The files of the modelled directory.  A working tree, an index and a    *)
(* git tree are all functions from the paths present to their bytes.       *)
(***************************************************************************)
Paths == {"a.rs", "b.txt", "notes", ".gitignore"}
UserPaths == {"a.rs", "b.txt", "notes"}

\* More paths, for the scans: below an excluded directory, named like one,
\* below a directory an ignore file can name, with an ignored extension, and
\* a special name.
ScanPaths == {"target/a.rs", "env", "docs/c.md", "x.log", "LICENSE"}

\* The text of a path below the scanned directory.
PathChars(p) ==
    CASE
      p = "a.rs" -> <<"a", ".", "r", "s">>
      [] p = "b.txt" -> <<"b", ".", "t", "x", "t">>
      [] p = "notes" -> <<"n", "o", "t", "e", "s">>
      [] p = ".gitignore" -> <<".", "g", "i", "t", "i", "g", "n", "o", "r", "e">>
      [] p = "target/a.rs" -> <<"t", "a", "r", "g", "e", "t", "/", "a", ".", "r", "s">>
      [] p = "env" -> <<"e", "n", "v">>
      [] p = "docs/c.md" -> <<"d", "o", "c", "s", "/", "c", ".", "m", "d">>
      [] p = "x.log" -> <<"x", ".", "l", "o", "g">>
      [] p = "LICENSE" -> <<"L", "I", "C", "E", "N", "S", "E">>
      [] p = "src/m/d.rs" -> <<"s", "r", "c", "/", "m", "/", "d", ".", "r", "s">>

\* The directory the commands are run on, and one below a directory with an
\* excluded name.
RepoDir == <<"r", "e", "p", "o">>
BinRepoDir == <<"b", "i", "n", "/", "r", "e", "p", "o">>

\* Path::join
JoinPath(dir, rel) == dir \o <<"/">> \o rel

\* Path::components: the names between the separators; empty names and
\* `.` are dropped.
Components(path) ==
    SelectSeq(Split(path, "/"), LAMBDA c : c # <<>> /\ c # <<".">>)

\* Path::file_name: the last component, unless it is `..`; empty for none.
FileName(path) ==
    LET c == Components(path)
    IN  IF Len(c) = 0 \/ c[Len(c)] = <<".", ".">> THEN <<>> ELSE c[Len(c)]

\* The position of the last dot of a name, 0 without one.
LastDot(name) ==
    LET dots == {i \in 1..Len(name) : name[i] = "."}
    IN  IF dots = {} THEN 0 ELSE CHOOSE i \in dots : \A j \in dots : j <= i

\* std::path::Path::extension: none for a name without a dot and for a
\* name whose only dot is the leading one.
Extension(path) ==
    LET name == FileName(path)
        dot == LastDot(name)
    IN  IF name = <<>> \/ dot <= 1 THEN Absent
        ELSE Some(SubSeq(name, dot + 1, Len(name)))

TextX == <<"x", "LF">>
TextY == <<"y", "LF">>
TextXCrLf == <<"x", "CR", "LF">>
Contents == {TextX, TextY}

\* Contents of a mebibyte, and of one byte more: "MiB" stands for 1048576
\* bytes.
OneMiB == <<"MiB">>
OverOneMiB == <<"MiB", "x">>

BytesPerMiB == 1048576

\* fs::metadata(path).len()
RECURSIVE FileSize(_)
FileSize(bytes) ==
    IF Len(bytes) = 0 THEN 0
    ELSE (IF Head(bytes) = "MiB" THEN BytesPerMiB ELSE 1) + FileSize(Tail(bytes))

EmptyTree == [q \in {} |-> <<>>]

WithFile(t, p, c) == [q \in (DOMAIN t) \cup {p} |-> IF q = p THEN c ELSE t[q]]
WithoutFile(t, p) == [q \in (DOMAIN t) \ {p} |-> t[q]]

\* The arms of the match of detect_file_type on the lower-cased extension.
ExtensionTable == {
    <<<<"c">>, "C">>, <<<<"c", "p", "p">>, "C++">>, <<<<"c", "c">>, "C++">>,
    <<<<"c", "x", "x">>, "C++">>, <<<<"h">>, "C/C++ Header">>,
    <<<<"h", "p", "p">>, "C++ Header">>, <<<<"h", "h">>, "C++ Header">>,
    <<<<"h", "x", "x">>, "C++ Header">>, <<<<"j", "a", "v", "a">>, "Java">>,
    <<<<"p", "y">>, "Python">>, <<<<"r", "b">>, "Ruby">>,
    <<<<"c", "s">>, "C#">>, <<<<"g", "o">>, "Go">>,
    <<<<"p", "h", "p">>, "PHP">>, <<<<"r", "s">>, "Rust">>,
    <<<<"s", "w", "i", "f", "t">>, "Swift">>, <<<<"k", "t">>, "Kotlin">>,
    <<<<"k", "t", "s">>, "Kotlin">>, <<<<"s", "c", "a", "l", "a">>, "Scala">>,
    <<<<"j", "s">>, "JavaScript">>, <<<<"j", "s", "x">>, "JavaScript">>,
    <<<<"t", "s">>, "TypeScript">>, <<<<"t", "s", "x">>, "TypeScript">>,
    <<<<"s", "h">>, "Shell Script">>,
    <<<<"b", "a", "s", "h">>, "Shell Script">>,
    <<<<"z", "s", "h">>, "Shell Script">>,
    <<<<"b", "a", "t">>, "Batch Script">>,
    <<<<"p", "s", "1">>, "PowerShell">>, <<<<"r">>, "R">>,
    <<<<"j", "l">>, "Julia">>, <<<<"m", "m">>, "Objective-C++">>,
    <<<<"c", "m", "a", "k", "e">>, "CMake">>,
    <<<<"p", "r", "o", "t", "o">>, "Protobuf">>,
    <<<<"g", "r", "a", "p", "h", "q", "l">>, "GraphQL">>,
    <<<<"g", "q", "l">>, "GraphQL">>,
    <<<<"t", "h", "r", "i", "f", "t">>, "Thrift">>,
    <<<<"h", "t", "m", "l">>, "HTML">>, <<<<"h", "t", "m">>, "HTML">>,
    <<<<"c", "s", "s">>, "CSS">>, <<<<"s", "c", "s", "s">>, "CSS">>,
    <<<<"s", "a", "s", "s">>, "CSS">>, <<<<"l", "e", "s", "s">>, "CSS">>,
    <<<<"x", "m", "l">>, "XML">>, <<<<"j", "s", "o", "n">>, "JSON">>,
    <<<<"y", "m", "l">>, "YAML">>, <<<<"y", "a", "m", "l">>, "YAML">>,
    <<<<"t", "o", "m", "l">>, "TOML">>,
    <<<<"l", "o", "c", "k">>, "Lockfile">>, <<<<"m", "d">>, "Documentation">>,
    <<<<"t", "x", "t">>, "Documentation">>,
    <<<<"r", "s", "t">>, "Documentation">>,
    <<<<"a", "d", "o", "c">>, "Documentation">>,
    <<<<"i", "p", "y", "n", "b">>, "Notebook">>,
    <<<<"i", "n", "i">>, "Configuration">>,
    <<<<"c", "f", "g">>, "Configuration">>,
    <<<<"c", "o", "n", "f">>, "Configuration">>,
    <<<<"s", "l", "n">>, "Solution File">>,
    <<<<"c", "s", "p", "r", "o", "j">>, "C# Project File">>,
    <<<<"p", "o", "m">>, "Maven Project File">>,
    <<<<"g", "r", "a", "d", "l", "e">>, "Gradle Build File">>,
    <<<<"i", "s", "s">>, "Installer Script">>, <<<<"s", "q", "l">>, "SQL">>,
    <<<<"j", "p", "g">>, "Image">>, <<<<"j", "p", "e", "g">>, "Image">>,
    <<<<"p", "n", "g">>, "Image">>, <<<<"b", "m", "p">>, "Image">>,
    <<<<"g", "i", "f">>, "Image">>, <<<<"t", "i", "f", "f">>, "Image">>,
    <<<<"w", "e", "b", "p">>, "Image">>,
    <<<<"s", "v", "g">>, "Vector Image">>, <<<<"i", "c", "o">>, "Icon">>,
    <<<<"c", "u", "r">>, "Cursor">>, <<<<"d", "l", "g">>, "Dialog File">>,
    <<<<"w", "a", "v">>, "Audio">>, <<<<"m", "p", "3">>, "Audio">>,
    <<<<"f", "l", "a", "c">>, "Audio">>, <<<<"a", "a", "c">>, "Audio">>,
    <<<<"m", "4", "a">>, "Audio">>, <<<<"o", "g", "g">>, "Audio">>,
    <<<<"o", "p", "u", "s">>, "Audio">>, <<<<"a", "i", "f", "f">>, "Audio">>,
    <<<<"a", "i", "f">>, "Audio">>, <<<<"w", "m", "a">>, "Audio">>,
    <<<<"m", "i", "d">>, "Audio">>, <<<<"m", "i", "d", "i">>, "Audio">>,
    <<<<"t", "t", "f">>, "Font">>, <<<<"o", "t", "f">>, "Font">>,
    <<<<"w", "o", "f", "f">>, "Font">>,
    <<<<"w", "o", "f", "f", "2">>, "Font">> }

\* The match of detect_file_type on the extension of a path.
DetectByExtension(file_path) ==
    LET extension == Extension(file_path)
        lowered == IF extension = Absent THEN <<>> ELSE ToLowercase(extension[1])
        hits == {e \in ExtensionTable : e[1] = lowered}
    IN  IF hits = {} THEN None ELSE (CHOOSE e \in hits : TRUE)[2]

\* A classifier that knows no special file name.
NoSpecialNames(file_path) == DetectByExtension(file_path)

\* A classifier with a label for every file name.
LabelsEveryName(file_path) ==
    IF FileName(file_path) = <<>> THEN None ELSE "Text"

\* detect_file_type(file_path): special file names first, then the
\* extension table.
detect_file_type(file_path) ==
    LET file_name == FileName(file_path)
    IN  IF file_name = <<>> THEN None
        ELSE IF EqIgnoreAsciiCase(file_name, <<"L", "I", "C", "E", "N", "S", "E">>)
        THEN "License"
        ELSE IF EqIgnoreAsciiCase(file_name, <<"D", "o", "c", "k", "e", "r", "f", "i", "l", "e">>)
        THEN "Build Script"
        ELSE IF EqIgnoreAsciiCase(file_name, <<"M", "a", "k", "e", "f", "i", "l", "e">>)
        THEN "Build Script"
        ELSE IF EqIgnoreAsciiCase(file_name,
                   <<"C", "M", "a", "k", "e", "L", "i", "s", "t", "s", ".", "t", "x", "t">>)
        THEN "CMake"
        ELSE DetectByExtension(file_path)

ExcludedNames == {
    <<"t", "a", "r", "g", "e", "t">>,
    <<"t", "a", "r", "g", "e", "t", "_", "c", "i">>, <<"b", "i", "n">>,
    <<"o", "b", "j">>, <<"v", "e", "n", "v">>, <<".", "v", "e", "n", "v">>,
    <<"e", "n", "v">>, <<".", "g", "i", "t">>, <<".", "h", "g">>,
    <<".", "s", "v", "n">> }

\* No path is excluded.
NothingExcluded(path) == FALSE

\* is_in_excluded_path(path)
is_in_excluded_path(path) ==
    LET comps == Components(path)
    IN  \E i \in 1..Len(comps) : comps[i] \in ExcludedNames

\* generate_gitignore_content: the patterns, one a line.
GitignoreContent == <<
    "target/", "LF", "target_ci/", "LF", "bin/", "LF", "obj/", "LF", "venv/",
    "LF", ".venv/", "LF", "env/", "LF", "*.tmp", "LF", "*.log" >>

\* A line of an ignore file as a pattern: a directory name (`name/`) or an
\* extension (`*.ext`), negated by a leading `!`.
PatternOf(line) ==
    CASE
      line = "target/" -> [neg |-> FALSE, kind |-> "dir", text |-> <<"t", "a", "r", "g", "e", "t">>]
      [] line = "target_ci/" -> [neg |-> FALSE, kind |-> "dir", text |-> <<"t", "a", "r", "g", "e", "t", "_", "c", "i">>]
      [] line = "bin/" -> [neg |-> FALSE, kind |-> "dir", text |-> <<"b", "i", "n">>]
      [] line = "obj/" -> [neg |-> FALSE, kind |-> "dir", text |-> <<"o", "b", "j">>]
      [] line = "venv/" -> [neg |-> FALSE, kind |-> "dir", text |-> <<"v", "e", "n", "v">>]
      [] line = ".venv/" -> [neg |-> FALSE, kind |-> "dir", text |-> <<".", "v", "e", "n", "v">>]
      [] line = "env/" -> [neg |-> FALSE, kind |-> "dir", text |-> <<"e", "n", "v">>]
      [] line = "*.tmp" -> [neg |-> FALSE, kind |-> "ext", text |-> <<"t", "m", "p">>]
      [] line = "*.log" -> [neg |-> FALSE, kind |-> "ext", text |-> <<"l", "o", "g">>]
      [] line = "docs/" -> [neg |-> FALSE, kind |-> "dir", text |-> <<"d", "o", "c", "s">>]
      [] line = "*.rs" -> [neg |-> FALSE, kind |-> "ext", text |-> <<"r", "s">>]
      [] line = "!target/" -> [neg |-> TRUE, kind |-> "dir", text |-> <<"t", "a", "r", "g", "e", "t">>]
      [] line = "!*.md" -> [neg |-> TRUE, kind |-> "ext", text |-> <<"m", "d">>]
      [] OTHER -> [neg |-> FALSE, kind |-> "none", text |-> <<>>]

\* Whether a pattern matches the entry with these components.
PatternMatches(pattern, comps, is_dir) ==
    LET name == comps[Len(comps)]
        suffix == <<".">> \o pattern.text
    IN  CASE pattern.kind = "dir" -> is_dir /\ name = pattern.text
          [] pattern.kind = "ext" ->
                /\ Len(name) >= Len(suffix)
                /\ SubSeq(name, Len(name) - Len(suffix) + 1, Len(name)) = suffix
          [] OTHER -> FALSE

\* Gitignore::matched: the last line that matches decides.
Matched(lines, comps, is_dir) ==
    LET hits == {i \in 1..Len(lines) : PatternMatches(PatternOf(lines[i]), comps, is_dir)}
    IN  IF hits = {} THEN "none"
        ELSE LET last == CHOOSE i \in hits : \A j \in hits : j <= i
             IN  IF PatternOf(lines[last]).neg THEN "whitelist" ELSE "ignore"

\* Gitignore::matched_path_or_any_parents: the path, then its parents.
RECURSIVE matched_path_or_any_parents(_, _, _)
matched_path_or_any_parents(lines, comps, is_dir) ==
    LET m == Matched(lines, comps, is_dir)
    IN  IF m # "none" \/ Len(comps) <= 1 THEN m
        ELSE matched_path_or_any_parents(lines, SubSeq(comps, 1, Len(comps) - 1), TRUE)

\* The lines of the .gitignore at the root of the tree, none without one.
IgnoreLines(tree) ==
    IF ".gitignore" \in DOMAIN tree
    THEN SelectSeq(tree[".gitignore"], LAMBDA t : t # "LF")
    ELSE <<>>

\* The local matcher built from <dir>/.gitignore says ignore.
IgnoredByGitignore(tree, p) ==
    matched_path_or_any_parents(IgnoreLines(tree), Components(PathChars(p)), FALSE)
        = "ignore"

\* The ignore walker, which reads .gitignore inside a git repository, does
\* not yield the file: the file or a directory above it is ignored.
SkippedByWalker(tree, p, in_repo) ==
    LET comps == Components(PathChars(p))
        lines == IgnoreLines(tree)
    IN  /\ in_repo
        /\ \E k \in 1..Len(comps) :
              Matched(lines, SubSeq(comps, 1, k), k < Len(comps)) = "ignore"

\* The files of a tree in the order the walk yields them.
RECURSIVE WalkOrder(_)
WalkOrder(files) ==
    IF files = {} THEN <<>>
    ELSE LET p == CHOOSE q \in files : TRUE
         IN  <<p>> \o WalkOrder(files \ {p})

\* The loop of scan_source_files over the entries of the walk.
RECURSIVE ScanSourceLoop(_, _, _, _)
ScanSourceLoop(dir, tree, entries, cap_bytes) ==
    IF Len(entries) = 0 THEN [source_files |-> <<>>, count |-> 0]
    ELSE LET p == Head(entries)
             path == JoinPath(dir, PathChars(p))
             rest == ScanSourceLoop(dir, tree, Tail(entries), cap_bytes)
         IN  IF is_in_excluded_path(path) THEN rest
             ELSE IF IgnoredByGitignore(tree, p) THEN rest
             ELSE IF detect_file_type(path) = None THEN rest
             ELSE IF LimbsLess(cap_bytes, ToU64(FileSize(tree[p]))) THEN rest
             ELSE [source_files |-> <<p>> \o rest.source_files,
                   count |-> rest.count + 1]

\* scan_source_files(dir, max_file_mb): the candidate files and their count.
scan_source_files(dir, tree, in_repo, max_file_mb) ==
    LET cap_bytes == SaturatingMul1024(SaturatingMul1024(max_file_mb))
        walked == {p \in DOMAIN tree : ~SkippedByWalker(tree, p, in_repo)}
    IN  ScanSourceLoop(dir, tree, WalkOrder(walked), cap_bytes)

\* scan_total_files(dir): every regular file that survives the filters.
scan_total_files(dir, tree, in_repo) ==
    Cardinality({p \in DOMAIN tree :
                    /\ ~SkippedByWalker(tree, p, in_repo)
                    /\ ~is_in_excluded_path(JoinPath(dir, PathChars(p)))
                    /\ ~IgnoredByGitignore(tree, p)})

\* The members of a Vec.
Members(s) == {s[i] : i \in 1..Len(s)}

\* --max-file-mb when not given.
DefaultMaxFileMb == ToU64(50)

(***************************************************************************)
(* State.                                                                  *)
(***************************************************************************)
VARIABLES
    dirExists,   \* the target directory exists
    wt,          \* working tree: path -> bytes
    repo,        \* a repository (.git) exists in the directory
    index,       \* the repository's index: path -> staged bytes
    commits,     \* the object database's commits; a commit's id is its position
    head,        \* the commit HEAD resolves to, 0 when it resolves to none
    walk,        \* the order in which a Sort::TIME revwalk from HEAD yields the commits
    clock,       \* the system clock, in seconds
    detached,    \* HEAD names a commit and no branch
    tags,        \* refs/tags: tag name -> commit id
    remotes,     \* the configured remotes: name -> URL
    originTip,   \* the commit the default branch of the origin repository points to, 0 if none
    trackTip,    \* refs/remotes/origin/<default branch>, 0 when the ref is absent
    originHead,  \* refs/remotes/origin/HEAD: "absent" or "symbolic"
    originTags,  \* the tags of the origin repository: tag name -> commit id
    hostedRepo,  \* the repository on the host: "none", or its visibility
    tempDirs,    \* the snapshot directories under the temp dir
    op,          \* the invocation that ran last
    ret,         \* what it returned
    out          \* what it printed or produced

remoteVars == <<remotes, originTip, trackTip, originHead, originTags, hostedRepo>>

vars == <<dirExists, wt, repo, index, commits, head, walk, clock, detached, tags, remoteVars,
          tempDirs, op, ret, out>>

fsVars == <<dirExists, wt, repo, index, commits, head, walk, tags, remoteVars,
            tempDirs>>

\* Nothing was selected as a side of a comparison.
NoSnapshot == [kind |-> "none", commit |-> 0, dir |-> <<>>]

NoOut == [listing |-> <<>>, commit |-> 0, before |-> NoSnapshot, after |-> NoSnapshot,
          cmds |-> <<>>, request |-> "none", source_files |-> <<>>, count |-> 0,
          total |-> 0, tag |-> <<>>, dirs |-> {}]

(***************************************************************************)
(* Reading the repository.                                                 *)
(***************************************************************************)
\* The commits reachable from commit c through parent links.
RECURSIVE Reachable(_, _)
Reachable(cs, c) ==
    IF c = 0 THEN {}
    ELSE {c} \cup UNION {Reachable(cs, cs[c].parents[i]) : i \in 1..Len(cs[c].parents)}

IsPermutationOf(s, S) ==
    /\ Len(s) = Cardinality(S)
    /\ {s[i] : i \in 1..Len(s)} = S

TimeDescending(cs, s) ==
    \A i, j \in 1..Len(s) : i < j => cs[s[i]].time >= cs[s[j]].time

\* What revwalk.push_head + set_sorting(Sort::TIME) can yield: every commit
\* reachable from the tip, by commit time descending.  The library fixes the
\* order of commits of one second by its queue; the tip is queued first and
\* no equal-time commit overtakes it.
RevwalkOrders(cs, h) ==
    {s \in UNION {[1..n -> 1..Len(cs)] : n \in {Cardinality(Reachable(cs, h))}} :
        /\ IsPermutationOf(s, Reachable(cs, h))
        /\ TimeDescending(cs, s)
        /\ (h # 0 /\ \A c \in Reachable(cs, h) : cs[c].time <= cs[h].time) => s[1] = h}

\* get_last_commit: the commit HEAD resolves to.
get_last_commit == IF head = 0 THEN [ok |-> FALSE, commit |-> 0]
                   ELSE [ok |-> TRUE, commit |-> head]

(***************************************************************************)
(* Initial state: nothing at the target path yet.                          *)
(***************************************************************************)
Init ==
    /\ dirExists = FALSE
    /\ wt = EmptyTree
    /\ repo = FALSE
    /\ index = EmptyTree
    /\ commits = <<>>
    /\ head = 0
    /\ walk = <<>>
    /\ clock = 0
    /\ detached = FALSE
    /\ tags = EmptyTree
    /\ remotes = EmptyTree
    /\ originTip = 0
    /\ trackTip = 0
    /\ originHead = "absent"
    /\ originTags = EmptyTree
    /\ hostedRepo = "none"
    /\ tempDirs = EmptyTree
    /\ op = [name |-> "init"]
    /\ ret = "ok"
    /\ out = NoOut

(***************************************************************************)
(* What the user does between invocations.                                 *)
(***************************************************************************)
\* The user creates the directory.
MkDir ==
    /\ ~dirExists
    /\ dirExists' = TRUE
    /\ op' = [name |-> "mkdir"]
    /\ ret' = "ok"
    /\ out' = NoOut
    /\ UNCHANGED <<wt, repo, index, commits, head, walk, clock, detached, tags, remoteVars,
                   tempDirs>>

\* The user writes a file of the working tree.
WriteFile(p, c) ==
    /\ dirExists
    /\ ~(p \in DOMAIN wt /\ wt[p] = c)
    /\ wt' = WithFile(wt, p, c)
    /\ op' = [name |-> "write", path |-> p]
    /\ ret' = "ok"
    /\ out' = NoOut
    /\ UNCHANGED <<dirExists, repo, index, commits, head, walk, clock, detached, tags,
                   remoteVars, tempDirs>>

\* The user deletes a file of the working tree.
RemoveFile(p) ==
    /\ p \in DOMAIN wt
    /\ wt' = WithoutFile(wt, p)
    /\ op' = [name |-> "remove", path |-> p]
    /\ ret' = "ok"
    /\ out' = NoOut
    /\ UNCHANGED <<dirExists, repo, index, commits, head, walk, clock, detached, tags,
                   remoteVars, tempDirs>>

\* A repository without commits, as `cargo new` or `git init` leaves it.
GitInit ==
    /\ dirExists
    /\ ~repo
    /\ repo' = TRUE
    /\ op' = [name |-> "git init"]
    /\ ret' = "ok"
    /\ out' = NoOut
    /\ UNCHANGED <<dirExists, wt, index, commits, head, walk, clock, detached, tags,
                   remoteVars, tempDirs>>

\* A second passes.
Tick ==
    /\ clock < MaxClock
    /\ clock' = clock + 1
    /\ detached' = detached
    /\ op' = [name |-> "tick"]
    /\ ret' = "ok"
    /\ out' = NoOut
    /\ UNCHANGED fsVars

(***************************************************************************)
(* Staging and committing.                                                 *)
(***************************************************************************)
\* add_files_to_git staging nothing.
AddNoFiles(idx, tree, files, dry_run) == idx

\* add_files_to_git: index.add_path for every given file, unless dry_run.
add_files_to_git(idx, tree, files, dry_run) ==
    IF dry_run THEN idx
    ELSE [q \in (DOMAIN idx) \cup files |-> IF q \in files THEN tree[q] ELSE idx[q]]

\* create_gitignore: the ignore file is written over whatever was there.
create_gitignore(tree, dry_run) ==
    IF dry_run THEN tree ELSE WithFile(tree, ".gitignore", GitignoreContent)

\* A commit that forgets its parents.
OrphanCommit(tree, parents, message) ==
    [tree |-> tree, parents |-> <<>>, time |-> clock, message |-> message]

\* repo.commit(Some("HEAD"), sig, sig, message, tree, parents): a new commit
\* object, stamped with Signature::now.
NewCommit(tree, parents, message) ==
    [tree |-> tree, parents |-> parents, time |-> clock, message |-> message]

\* new_repository(dir, dry_run, max_file_mb)
new_repository(dry_run, git_installed) ==
    /\ op' = [name |-> "new", dry_run |-> dry_run, git |-> git_installed]
    /\ out' = NoOut
    /\ UNCHANGED <<clock, detached, tags, remoteVars, tempDirs>>
    /\ IF ~git_installed
       THEN /\ ret' = "Git not installed"
            /\ UNCHANGED <<dirExists, wt, repo, index, commits, head, walk>>
       ELSE IF dirExists /\ repo /\ head # 0
       THEN /\ ret' = "git repository already exists"
            /\ UNCHANGED <<dirExists, wt, repo, index, commits, head, walk>>
       ELSE IF dry_run
       THEN /\ ret' = "ok"
            /\ UNCHANGED <<dirExists, wt, repo, index, commits, head, walk>>
       ELSE LET source_files == Members(scan_source_files(RepoDir, wt, repo,
                                                          DefaultMaxFileMb).source_files)
                staged == add_files_to_git(index, wt, source_files, FALSE)
            IN  /\ Len(commits) < MaxCommits
                /\ dirExists' = TRUE
                /\ repo' = TRUE
                /\ wt' = create_gitignore(wt, FALSE)
                /\ index' = staged
                /\ commits' = Append(commits, NewCommit(staged, <<>>, "Initial commit"))
                /\ head' = Len(commits) + 1
                /\ walk' \in RevwalkOrders(commits', head')
                /\ ret' = "ok"

\* The line read from standard input when no commit message was given.
CommitMessage(commit_msg, line) ==
    IF commit_msg # None THEN commit_msg
    ELSE IF line = "" THEN "Updated files" ELSE line

\* update_repository(dir, dry_run, commit_msg, max_file_mb)
update_repository(dry_run, commit_msg, line) ==
    /\ op' = [name |-> "update", dry_run |-> dry_run]
    /\ out' = NoOut
    /\ UNCHANGED <<dirExists, wt, repo, clock, detached, tags, remoteVars, tempDirs>>
    /\ IF ~repo
       THEN /\ ret' = "No git repository"
            /\ UNCHANGED <<index, commits, head, walk>>
       ELSE LET source_files == Members(scan_source_files(RepoDir, wt, repo,
                                                          DefaultMaxFileMb).source_files)
                staged == add_files_to_git(index, wt, source_files, dry_run)
                parent_commit == get_last_commit
            IN  /\ index' = staged
                /\ IF ~parent_commit.ok
                   THEN /\ ret' = "reference 'refs/heads/master' not found"
                        /\ UNCHANGED <<commits, head, walk>>
                   ELSE IF staged = commits[parent_commit.commit].tree
                   THEN /\ ret' = "ok"
                        /\ UNCHANGED <<commits, head, walk>>
                   ELSE IF dry_run
                   THEN /\ ret' = "ok"
                        /\ UNCHANGED <<commits, head, walk>>
                   ELSE /\ Len(commits) < MaxCommits
                        /\ commits' = Append(commits,
                               NewCommit(staged, <<parent_commit.commit>>,
                                         CommitMessage(commit_msg, line)))
                        /\ head' = Len(commits) + 1
                        /\ walk' \in RevwalkOrders(commits', head')
                        /\ ret' = "ok"

(***************************************************************************)
(* History listing and index resolution.                                   *)
(***************************************************************************)
\* The revwalk left newest first.
KeepOrder(s) == s

Reverse(s) == [i \in 1..Len(s) |-> s[Len(s) + 1 - i]]

DigitChar(d) ==
    CASE d = 0 -> "0" [] d = 1 -> "1" [] d = 2 -> "2" [] d = 3 -> "3" [] d = 4 -> "4"
      [] d = 5 -> "5" [] d = 6 -> "6" [] d = 7 -> "7" [] d = 8 -> "8" [] d = 9 -> "9"

\* The decimal digits of a natural number.
RECURSIVE Decimal(_)
Decimal(n) ==
    IF n < 10 THEN <<DigitChar(n)>>
    ELSE Append(Decimal(n \div 10), DigitChar(n % 10))

RECURSIVE ZeroPad(_, _)
ZeroPad(s, width) == IF Len(s) >= width THEN s ELSE ZeroPad(<<"0">> \o s, width)

IndexWidth == 3

\* format!("[{:03}]", display_index), without the brackets.
FormatIndex(display_index) == ZeroPad(Decimal(display_index), IndexWidth)

\* A listing that numbers the newest commit 1.
InfoListingFromOne(commit_ids) ==
    LET oldest_first == Reverse(commit_ids)
        total == Len(oldest_first)
    IN  [k \in 1..total |-> [display_index |-> total - (k - 1),
                             shown |-> FormatIndex(total - (k - 1)),
                             commit |-> oldest_first[k]]]

\* The lines info_repository prints: the revwalk reversed to oldest first,
\* each commit with display_index = total - 1 - i.
InfoListing(commit_ids) ==
    LET oldest_first == Reverse(commit_ids)
        total == Len(oldest_first)
    IN  [k \in 1..total |-> [display_index |-> total - 1 - (k - 1),
                             shown |-> FormatIndex(total - 1 - (k - 1)),
                             commit |-> oldest_first[k]]]

\* info_repository(dir)
info_repository ==
    /\ op' = [name |-> "info"]
    /\ UNCHANGED <<clock, detached>>
    /\ UNCHANGED fsVars
    /\ IF ~repo
       THEN ret' = "No git repository" /\ out' = NoOut
       ELSE IF head = 0
       THEN ret' = "Empty repository: no commits exist" /\ out' = NoOut
       ELSE ret' = "ok" /\ out' = [NoOut EXCEPT !.listing = InfoListing(walk)]

MinI32 == -2147483647 - 1
MaxI32 == 2147483647

\* `idx as usize` on a 64-bit target: the two's complement bits of the i32,
\* sign-extended to 64 bits, as four 16-bit limbs, most significant first.
AsUsize(idx) ==
    IF idx >= 0
    THEN <<0, 0, idx \div Limb, idx % Limb>>
    ELSE LET k == (idx + MaxI32) + 1
         IN  <<Limb - 1, Limb - 1, HalfLimb + (k \div Limb), k % Limb>>

\* The position of a usize below 2^31 in a Vec (1-based here).
UsizeToPosition(u) == u[3] * Limb + u[4] + 1

\* The bounds check done on the signed index: a negative index passes it.
CommitByIndexSigned(commit_ids, idx) ==
    IF idx < Len(commit_ids)
    THEN [ok |-> TRUE, commit |-> commit_ids[IF idx < 0 THEN 1 ELSE idx + 1]]
    ELSE [ok |-> FALSE, commit |-> 0]

\* get_commit_by_index(repo, idx)
CommitByIndex(commit_ids, idx) ==
    IF LimbsLess(AsUsize(idx), AsUsize(Len(commit_ids)))
    THEN [ok |-> TRUE, commit |-> commit_ids[UsizeToPosition(AsUsize(idx))]]
    ELSE [ok |-> FALSE, commit |-> 0]

IndexInputs == {MinI32, -1, MaxI32} \cup (0..MaxCommits)

get_commit_by_index(idx) ==
    /\ repo
    /\ head # 0
    /\ op' = [name |-> "get", idx |-> idx]
    /\ UNCHANGED <<clock, detached>>
    /\ UNCHANGED fsVars
    /\ LET r == CommitByIndex(walk, idx)
       IN  /\ ret' = IF r.ok THEN "ok" ELSE "Index out of bounds"
           /\ out' = [NoOut EXCEPT !.commit = r.commit]

(***************************************************************************)
(* The repository lifecycle.                                               *)
(***************************************************************************)
\* What the user writes where.
UserWrites == {<<"a.rs", TextX>>, <<"a.rs", TextY>>, <<"b.txt", TextX>>, <<"notes", TextX>>}

Next ==
    \/ MkDir
    \/ \E w \in UserWrites : WriteFile(w[1], w[2])
    \/ \E p \in UserPaths : RemoveFile(p)
    \/ GitInit
    \/ \E d \in BOOLEAN, g \in BOOLEAN : new_repository(d, g)
    \/ \E d \in BOOLEAN : update_repository(d, None, "")

Spec == Init /\ [][Next]_vars

(***************************************************************************)
(* Histories: commits made over time, listed and resolved by index.        *)
(***************************************************************************)
NextHistory ==
    \/ MkDir
    \/ \E c \in Contents : WriteFile("a.rs", c)
    \/ Tick
    \/ new_repository(FALSE, TRUE)
    \/ update_repository(FALSE, None, "")
    \/ info_repository
    \/ \E i \in IndexInputs : get_commit_by_index(i)

SpecHistory == Init /\ [][NextHistory]_vars

(***************************************************************************)
(* The hosted remote.                                                      *)
(***************************************************************************)
\* The URL of the hosted repository, and another one.
HostedUrl == "https://github.com/user/repo.git"
OtherUrl == "https://example.invalid/remote.git"

\* libgit2 takes no empty string for a remote's name.
ValidRemoteName(remote_name) == remote_name # ""

\* Every remote name counts as configured.
AnyRemote(remote) == TRUE

\* repo.find_remote(remote).is_ok()
find_remote(remote) == remote \in DOMAIN remotes

\* Repository::remote(name, url): a new remote section in the configuration.
RemoteCreate(remote_name, remote_url) ==
    IF ~ValidRemoteName(remote_name)
    THEN [ok |-> FALSE, err |-> "not a valid remote name", remotes |-> remotes]
    ELSE IF remote_name \in DOMAIN remotes
    THEN [ok |-> FALSE, err |-> "remote already exists", remotes |-> remotes]
    ELSE [ok |-> TRUE, err |-> "", remotes |-> WithFile(remotes, remote_name, remote_url)]

\* How add_remote would go without looking the name up first.
AddWithoutLookup(remote_name, remote_url) == RemoteCreate(remote_name, remote_url)

\* add_remote(directory, remote_name, remote_url), the repository opened.
add_remote(remote_name, remote_url) ==
    IF ~find_remote(remote_name)
    THEN RemoteCreate(remote_name, remote_url)
    ELSE [ok |-> TRUE, err |-> "", remotes |-> remotes]

\* `git remote add origin <url>` by the user.
AddOrigin ==
    /\ repo
    /\ "origin" \notin DOMAIN remotes
    /\ remotes' = WithFile(remotes, "origin", HostedUrl)
    /\ op' = [name |-> "remote add"]
    /\ ret' = "ok"
    /\ out' = NoOut
    /\ UNCHANGED <<dirExists, wt, repo, index, commits, head, walk, clock, detached, tags,
                   originTip, trackTip, originHead, originTags, hostedRepo, tempDirs>>

\* The current tip is published to origin's default branch (`git push origin`).
PublishTip ==
    /\ "origin" \in DOMAIN remotes
    /\ head # 0
    /\ originTip # head
    /\ originTip' = head
    /\ trackTip' = head
    /\ op' = [name |-> "publish"]
    /\ ret' = "ok"
    /\ out' = NoOut
    /\ UNCHANGED <<dirExists, wt, repo, index, commits, head, walk, clock, detached, tags,
                   remotes, originHead, originTags, hostedRepo, tempDirs>>

\* `git remote set-head origin -a` by the user: origin/HEAD becomes a
\* symbolic ref to the remote-tracking default branch.
SetOriginHead ==
    /\ "origin" \in DOMAIN remotes
    /\ trackTip # 0
    /\ originHead = "absent"
    /\ originHead' = "symbolic"
    /\ op' = [name |-> "set-head"]
    /\ ret' = "ok"
    /\ out' = NoOut
    /\ UNCHANGED <<dirExists, wt, repo, index, commits, head, walk, clock, detached, tags,
                   remotes, originTip, trackTip, originTags, hostedRepo, tempDirs>>

RefNotFound == "reference not found"

\* The remote-tracking ref as it is, without asking the remote.
StaleRemoteHead(fetch_ok, show_ok) ==
    IF "origin" \notin DOMAIN remotes
    THEN [ok |-> FALSE, err |-> "Remote 'origin' not found", commit |-> 0,
          track |-> trackTip]
    ELSE IF trackTip = 0
    THEN [ok |-> FALSE, err |-> RefNotFound, commit |-> 0, track |-> trackTip]
    ELSE [ok |-> TRUE, err |-> "", commit |-> trackTip, track |-> trackTip]

\* get_remote_head_commit(repo, dir).  fetch_ok and show_ok are the exit
\* statuses of `git fetch origin` and `git remote show origin`.  The result
\* carries the remote-tracking ref as the fetch leaves it.
get_remote_head_commit(fetch_ok, show_ok) ==
    IF "origin" \notin DOMAIN remotes
    THEN [ok |-> FALSE, err |-> "Remote 'origin' not found", commit |-> 0,
          track |-> trackTip]
    ELSE IF ~fetch_ok
    THEN [ok |-> FALSE, err |-> "git fetch failed", commit |-> 0, track |-> trackTip]
    ELSE LET fetched == IF originTip # 0 THEN originTip ELSE trackTip
         IN  IF originHead = "symbolic"
             THEN IF fetched = 0
                  THEN [ok |-> FALSE, err |-> RefNotFound, commit |-> 0, track |-> fetched]
                  ELSE [ok |-> TRUE, err |-> "", commit |-> fetched, track |-> fetched]
             ELSE IF ~show_ok
             THEN [ok |-> FALSE, err |-> "git remote show origin failed", commit |-> 0,
                   track |-> fetched]
             ELSE IF originTip = 0 \/ fetched = 0
             THEN [ok |-> FALSE, err |-> RefNotFound, commit |-> 0, track |-> fetched]
             ELSE [ok |-> TRUE, err |-> "", commit |-> fetched, track |-> fetched]

(***************************************************************************)
(* Version selectors.                                                      *)
(***************************************************************************)
Digits == {"0", "1", "2", "3", "4", "5", "6", "7", "8", "9"}

DigitValue(ch) ==
    CASE ch = "0" -> 0 [] ch = "1" -> 1 [] ch = "2" -> 2 [] ch = "3" -> 3
      [] ch = "4" -> 4 [] ch = "5" -> 5 [] ch = "6" -> 6 [] ch = "7" -> 7
      [] ch = "8" -> 8 [] ch = "9" -> 9

ParseFailed == [ok |-> FALSE, value |-> 0]

\* The digits of a non-negative i32, accumulated with checked arithmetic.
RECURSIVE ParsePositive(_, _)
ParsePositive(digits, acc) ==
    IF Len(digits) = 0 THEN [ok |-> TRUE, value |-> acc]
    ELSE LET d == DigitValue(Head(digits))
         IN  IF acc > 214748364 \/ acc * 10 > MaxI32 - d
             THEN ParseFailed
             ELSE ParsePositive(Tail(digits), acc * 10 + d)

\* The digits of a negative i32, accumulated downwards.
RECURSIVE ParseNegative(_, _)
ParseNegative(digits, acc) ==
    IF Len(digits) = 0 THEN [ok |-> TRUE, value |-> acc]
    ELSE LET d == DigitValue(Head(digits))
         IN  IF acc < -214748364 \/ acc * 10 < MinI32 + d
             THEN ParseFailed
             ELSE ParseNegative(Tail(digits), acc * 10 - d)

\* str::parse::<i32>: an optional sign, then at least one digit, in range.
ParseI32(s) ==
    LET signed == Len(s) > 0 /\ s[1] \in {"+", "-"}
        digits == IF signed THEN Tail(s) ELSE s
    IN  IF Len(digits) = 0 \/ \E i \in 1..Len(digits) : digits[i] \notin Digits
        THEN ParseFailed
        ELSE IF signed /\ s[1] = "-" THEN ParseNegative(digits, 0)
        ELSE ParsePositive(digits, 0)

(***************************************************************************)
(* Snapshots.                                                              *)
(***************************************************************************)
\* The commit time as "%Y-%m-%d_%H%M%S".
FormatTimestamp(seconds) == <<"utc", seconds>>

\* create_temp_dir(prefix): <temp>/<prefix>.<nanoseconds now>, made with
\* create_dir_all, which accepts a directory that is already there.
TempDirPath(prefix, nanos) == <<prefix[1], prefix[2], nanos>>

create_temp_dir(dirs, prefix, nanos) ==
    IF TempDirPath(prefix, nanos) \in DOMAIN dirs THEN dirs
    ELSE WithFile(dirs, TempDirPath(prefix, nanos), EmptyTree)

\* The names a path is made of.
PathComponents(p) == Components(PathChars(p))

IsPrefix(a, b) == Len(a) <= Len(b) /\ SubSeq(b, 1, Len(a)) = a

\* tree.iter() of the tree object at the directory `at` of a commit's tree:
\* the names of its entries.
TreeEntries(tree, at) ==
    {PathComponents(p)[Len(at) + 1] :
        p \in {q \in DOMAIN tree : /\ Len(PathComponents(q)) > Len(at)
                                    /\ IsPrefix(at, PathComponents(q))}}

\* entry.kind() is a blob: the name ends a path of the tree.
EntryIsBlob(tree, at, name) ==
    \E p \in DOMAIN tree : PathComponents(p) = Append(at, name)

\* The path of the tree with these names.
PathAt(tree, comps) == CHOOSE p \in DOMAIN tree : PathComponents(p) = comps

\* A checkout that writes the blobs of the top tree object only.
CheckoutTopLevel(tree, at) ==
    [files |-> {[path |-> Append(at, n), bytes |-> tree[PathAt(tree, Append(at, n))]] :
                   n \in {m \in TreeEntries(tree, at) : EntryIsBlob(tree, at, m)}},
     dirs |-> {at}]

\* The recursion of checkout_tree_to_dir from the directory `at` below the
\* target: the directories it creates and the files it writes, by their
\* names below the target.
RECURSIVE CheckoutTree(_, _)
CheckoutTree(tree, at) ==
    LET names == TreeEntries(tree, at)
        subtrees == {CheckoutTree(tree, Append(at, n)) :
                        n \in {m \in names : ~EntryIsBlob(tree, at, m)}}
    IN  [files |-> {[path |-> Append(at, n),
                     bytes |-> tree[PathAt(tree, Append(at, n))]] :
                       n \in {m \in names : EntryIsBlob(tree, at, m)}}
                   \cup UNION {sub.files : sub \in subtrees},
         dirs |-> {at} \cup UNION {sub.dirs : sub \in subtrees}]

\* The file a written path is, among the paths of the tree.
WrittenAt(tree, files, q) == CHOOSE f \in files : PathAt(tree, f.path) = q

\* checkout_tree_to_dir(repo, tree, target): every blob of the tree is
\* written below target; whatever else the directory holds stays.
checkout_tree_to_dir(dirs, tree, target) ==
    LET files == CheckoutTree(tree, <<>>).files
        written == {PathAt(tree, f.path) : f \in files}
    IN  [dirs EXCEPT ![target] =
            [q \in (DOMAIN dirs[target]) \cup written |->
                IF q \in written THEN WrittenAt(tree, files, q).bytes
                ELSE dirs[target][q]]]

InvalidIndexes == "invalid repo indexes specified"

\* The working tree, compared in place.
WorkingTree == [kind |-> "worktree", commit |-> 0, dir |-> <<"dir">>]
Snapshot(c, path) == [kind |-> "commit", commit |-> c, dir |-> path]

DiffFailed(err, dirs, track, before) ==
    [ret |-> err, dirs |-> dirs, track |-> track,
     out |-> [NoOut EXCEPT !.before = before]]

\* The commit a selector of diff_command names: parse, then get_commit_by_index.
ResolveSelector(selector) ==
    LET parsed == ParseI32(selector)
    IN  IF ~parsed.ok \/ head = 0 THEN [ok |-> FALSE, commit |-> 0]
        ELSE CommitByIndex(walk, parsed.value)

\* A second selector refused before any snapshot is made.
RefusedBeforeSnapshot(dirs, track, before) ==
    DiffFailed(InvalidIndexes, tempDirs, track, NoSnapshot)

\* The second selector does not parse or is out of range: the error leaves
\* diff_command with the before snapshot as it stands by then.
SecondSelectorRefused(dirs, track, before) ==
    DiffFailed(InvalidIndexes, dirs, track, before)

\* The second half of diff_command: the after snapshot and the diff tool.
DiffAfter(versions, dry_run, dirs, track, before, nanos) ==
    IF Len(versions) = 1 /\ ToUppercase(versions[1]) = <<"L">>
    THEN [ret |-> "ok", dirs |-> dirs, track |-> track,
          out |-> [NoOut EXCEPT !.before = before, !.after = WorkingTree,
                                !.cmds = IF dry_run THEN <<>> ELSE <<"difftool">>]]
    ELSE IF Len(versions) = 2
    THEN LET after_commit == ResolveSelector(versions[2])
         IN  IF ~after_commit.ok
             THEN SecondSelectorRefused(dirs, track, before)
             ELSE LET c == after_commit.commit
                      after_prefix == <<"after", FormatTimestamp(commits[c].time)>>
                      temp == TempDirPath(after_prefix, nanos)
                      made == create_temp_dir(dirs, after_prefix, nanos)
                      filled == IF dry_run THEN made
                                ELSE checkout_tree_to_dir(made, commits[c].tree, temp)
                  IN  [ret |-> "ok", dirs |-> filled, track |-> track,
                       out |-> [NoOut EXCEPT !.before = before,
                                             !.after = Snapshot(c, temp),
                                             !.cmds = IF dry_run THEN <<>>
                                                      ELSE <<"difftool">>]]
    ELSE [ret |-> "ok", dirs |-> dirs, track |-> track,
          out |-> [NoOut EXCEPT !.before = before, !.after = WorkingTree,
                                !.cmds = IF dry_run THEN <<>> ELSE <<"difftool">>]]

\* H taken for the hosted head also when it is the only selector.
HostedAlone(versions) ==
    \/ Len(versions) \in {1, 2} /\ EqIgnoreAsciiCase(versions[1], <<"H">>)
    \/ Len(versions) = 1 /\ EqIgnoreAsciiCase(versions[1], <<"L">>)

\* Whether diff_command takes its before commit from the hosted remote.
HostedRequest(versions) ==
    \/ Len(versions) = 2 /\ EqIgnoreAsciiCase(versions[1], <<"H">>)
    \/ Len(versions) = 1 /\ EqIgnoreAsciiCase(versions[1], <<"L">>)

\* The first half of diff_command: the before commit and its snapshot.
DiffBefore(versions, dry_run, fetch_ok, show_ok, nanos1, nanos2) ==
    LET hosted == HostedRequest(versions)
        remote_head == get_remote_head_commit(fetch_ok, show_ok)
        local == IF Len(versions) = 0 THEN ResolveSelector(<<"0">>)
                 ELSE ResolveSelector(versions[1])
        track == IF hosted THEN remote_head.track ELSE trackTip
    IN  IF hosted /\ ~remote_head.ok
        THEN DiffFailed(remote_head.err, tempDirs, track, NoSnapshot)
        ELSE IF ~hosted /\ ~local.ok
        THEN DiffFailed(InvalidIndexes, tempDirs, track, NoSnapshot)
        ELSE LET c == IF hosted THEN remote_head.commit ELSE local.commit
                 before_prefix == <<"before", FormatTimestamp(commits[c].time)>>
                 before_temp_dir == TempDirPath(before_prefix, nanos1)
                 made == create_temp_dir(tempDirs, before_prefix, nanos1)
                 filled == IF dry_run THEN made
                           ELSE checkout_tree_to_dir(made, commits[c].tree, before_temp_dir)
             IN  DiffAfter(versions, dry_run, filled, track,
                           Snapshot(c, before_temp_dir), nanos2)

\* diff_command(dir, versions, dry_run)
diff_command(versions, dry_run, fetch_ok, show_ok, nanos1, nanos2) ==
    /\ DOMAIN tempDirs = {}
    /\ op' = [name |-> "diff", versions |-> versions, dry_run |-> dry_run,
              fetch_ok |-> fetch_ok, show_ok |-> show_ok]
    /\ UNCHANGED <<dirExists, wt, repo, index, commits, head, walk, clock, detached, tags,
                   remotes, originTip, originHead, originTags, hostedRepo>>
    /\ IF ~repo
       THEN /\ ret' = "could not find repository"
            /\ out' = NoOut
            /\ UNCHANGED <<tempDirs, trackTip>>
       ELSE LET r == DiffBefore(versions, dry_run, fetch_ok, show_ok, nanos1, nanos2)
            IN  /\ ret' = r.ret
                /\ out' = r.out
                /\ tempDirs' = r.dirs
                /\ trackTip' = r.track

\* The operator is done with a diff and clears the snapshot directories, if
\* any were made, out of the temp directory.
RemoveTempDirs ==
    /\ op.name = "diff"
    /\ tempDirs' = EmptyTree
    /\ op' = [name |-> "rm temp"]
    /\ ret' = "ok"
    /\ out' = NoOut
    /\ UNCHANGED <<dirExists, wt, repo, index, commits, head, walk, clock, detached, tags,
                   remoteVars>>

MaxVersions == 2

Selectors == {<<"0">>, <<"1">>, <<"-", "1">>, <<"H">>, <<"h">>, <<"L">>, <<"l">>,
              <<"x">>}

VersionLists == UNION {[1..n -> Selectors] : n \in 0..MaxVersions}

\* The hosted remote is consulted only by the H and L forms, and the clock is
\* read a second time only when there is a second selector.
FetchOutcomes(v) ==
    IF Len(v) > 0 /\ AsciiUpper(v[1][1]) \in {"H", "L"} THEN BOOLEAN ELSE {TRUE}

SecondReadings(v) == IF Len(v) = 2 THEN 0..MaxNanos ELSE {0}

NextDiff ==
    \/ (op.name # "diff" /\ new_repository(FALSE, TRUE))
    \/ (op.name # "diff" /\ \E c \in Contents : WriteFile("a.rs", c))
    \/ (op.name # "diff" /\ update_repository(FALSE, None, ""))
    \/ (op.name # "diff" /\ AddOrigin)
    \/ (op.name # "diff" /\ PublishTip)
    \/ (op.name # "diff" /\ SetOriginHead)
    \/ \E v \in VersionLists, d \in BOOLEAN :
          op.name # "diff" /\ \E f \in FetchOutcomes(v), n2 \in SecondReadings(v) :
             diff_command(v, d, f, TRUE, 0, n2)
    \/ (op.name # "diff" /\ \E i \in IndexInputs : get_commit_by_index(i))
    \/ RemoveTempDirs

SpecDiff == Init /\ [][NextDiff]_vars

(***************************************************************************)
(* Release tags.                                                           *)
(***************************************************************************)
\* The user stages a path as it is in the working tree (`git add <path>`).
GitAdd(p) ==
    /\ repo
    /\ p \in DOMAIN wt
    /\ ~(p \in DOMAIN index /\ index[p] = wt[p])
    /\ index' = WithFile(index, p, wt[p])
    /\ op' = [name |-> "git add", path |-> p]
    /\ ret' = "ok"
    /\ out' = NoOut
    /\ UNCHANGED <<dirExists, wt, repo, commits, head, walk, clock, detached, tags, remoteVars,
                   tempDirs>>

\* normalize_eol inside is_dirty: every CR LF pair becomes LF.
RECURSIVE normalize_eol(_)
normalize_eol(data) ==
    IF Len(data) = 0 THEN <<>>
    ELSE IF Len(data) >= 2 /\ data[1] = "CR" /\ data[2] = "LF"
    THEN <<"LF">> \o normalize_eol(SubSeq(data, 3, Len(data)))
    ELSE <<data[1]>> \o normalize_eol(Tail(data))

\* The statuses repo.statuses reports for a tracked path: the index against
\* the tree of HEAD, and the working tree against the index.
IndexNew(p) == p \in DOMAIN index /\ p \notin DOMAIN commits[head].tree
IndexDeleted(p) == p \in DOMAIN commits[head].tree /\ p \notin DOMAIN index
IndexModified(p) ==
    /\ p \in DOMAIN index
    /\ p \in DOMAIN commits[head].tree
    /\ index[p] # commits[head].tree[p]
WtDeleted(p) == p \in DOMAIN index /\ p \notin DOMAIN wt
WtModified(p) == p \in DOMAIN index /\ p \in DOMAIN wt /\ wt[p] # index[p]

HasCandidateChange(p) ==
    IndexNew(p) \/ IndexDeleted(p) \/ IndexModified(p) \/ WtDeleted(p) \/ WtModified(p)

\* renames_head_to_index(true): a path gone from the index and a new path
\* of the index that holds the same blob are one entry, a rename.
RenamePairs ==
    {pr \in Paths \X Paths :
        /\ IndexDeleted(pr[1])
        /\ IndexNew(pr[2])
        /\ commits[head].tree[pr[1]] = index[pr[2]]}

\* No path is in two pairs.
IsMatching(m) == \A x \in m, y \in m : (x[1] = y[1] \/ x[2] = y[2]) => x = y

Renames ==
    CHOOSE m \in SUBSET RenamePairs :
        /\ IsMatching(m)
        /\ \A m2 \in SUBSET RenamePairs :
              IsMatching(m2) => Cardinality(m2) <= Cardinality(m)

\* is_dirty(dir).  The entry of a rename has INDEX_RENAMED, which is not one
\* of the flags that return at once, and StatusEntry::path gives its old
\* path: the blob of HEAD at the old path is compared with the file at the
\* old path.
is_dirty ==
    IF head = 0 THEN FALSE
    ELSE LET renames == Renames
             old_paths == {pr[1] : pr \in renames}
             new_paths == {pr[2] : pr \in renames}
             path(p) == IF p \in new_paths
                        THEN (CHOOSE pr \in renames : pr[2] = p)[1]
                        ELSE p
         IN  \E p \in Paths \ old_paths :
                /\ HasCandidateChange(p)
                /\ \/ IndexNew(p) /\ p \notin new_paths
                   \/ IndexDeleted(p)
                   \/ path(p) \notin DOMAIN commits[head].tree
                   \/ path(p) \notin DOMAIN wt
                   \/ normalize_eol(commits[head].tree[path(p)])
                         # normalize_eol(wt[path(p)])

Whitespace == {" ", "LF", "CR", "TAB"}

RECURSIVE TrimStart(_)
TrimStart(s) ==
    IF Len(s) > 0 /\ Head(s) \in Whitespace THEN TrimStart(Tail(s)) ELSE s

RECURSIVE TrimEnd(_)
TrimEnd(s) ==
    IF Len(s) > 0 /\ s[Len(s)] \in Whitespace THEN TrimEnd(SubSeq(s, 1, Len(s) - 1))
    ELSE s

\* str::trim
Trim(s) == TrimEnd(TrimStart(s))

\* Only the first leading ch goes.
StripOnePrefix(s, ch) == IF Len(s) > 0 /\ Head(s) = ch THEN Tail(s) ELSE s

\* str::trim_start_matches(ch): every leading ch goes.
RECURSIVE TrimStartMatches(_, _)
TrimStartMatches(s, ch) ==
    IF Len(s) > 0 /\ Head(s) = ch THEN TrimStartMatches(Tail(s), ch) ELSE s

Letters ==
    {"a", "b", "c", "d", "e", "f", "g", "h", "i", "j", "k", "l", "m", "n", "o",
     "p", "q", "r", "s", "t", "u", "v", "w", "x", "y", "z", "A", "B", "C", "D",
     "E", "F", "G", "H", "I", "J", "K", "L", "M", "N", "O", "P", "Q", "R", "S",
     "T", "U", "V", "W", "X", "Y", "Z"}

\* The characters of a pre-release or build identifier.
IdentifierChars == Digits \cup Letters \cup {"-"}

\* The longest prefix of s made of the characters of a set.
RECURSIVE TakeWhile(_, _)
TakeWhile(s, chars) ==
    IF Len(s) > 0 /\ Head(s) \in chars THEN <<Head(s)>> \o TakeWhile(Tail(s), chars)
    ELSE <<>>

\* What follows the first n characters.
Drop(s, n) == SubSeq(s, n + 1, Len(s))

\* u64::MAX in decimal.
U64MaxDigits ==
    <<"1", "8", "4", "4", "6", "7", "4", "4", "0", "7", "3", "7", "0", "9", "5",
      "5", "1", "6", "1", "5">>

\* a < b for two numbers of the same number of digits.
RECURSIVE DigitsLess(_, _)
DigitsLess(a, b) ==
    IF Len(a) = 0 THEN FALSE
    ELSE IF Head(a) # Head(b) THEN DigitValue(Head(a)) < DigitValue(Head(b))
    ELSE DigitsLess(Tail(a), Tail(b))

\* The number fits a u64.
FitsU64(digits) ==
    \/ Len(digits) < Len(U64MaxDigits)
    \/ Len(digits) = Len(U64MaxDigits) /\ ~DigitsLess(U64MaxDigits, digits)

\* A numeric identifier of a semantic version: digits, no leading zero.
NumericIdentifier(part) ==
    /\ Len(part) > 0
    /\ \A i \in 1..Len(part) : part[i] \in Digits
    /\ Len(part) = 1 \/ part[1] # "0"

\* The parser's numeric_identifier at the start of s.
ParseNumber(s) ==
    LET digits == TakeWhile(s, Digits)
    IN  [ok |-> NumericIdentifier(digits) /\ FitsU64(digits),
         value |-> digits, rest |-> Drop(s, Len(digits))]

\* The parser's dot at the start of s.
ParseDot(s) == [ok |-> Len(s) > 0 /\ Head(s) = ".", rest |-> Drop(s, 1)]

\* The parser's identifier list at the start of s: segments between dots,
\* none empty; a segment of digits only has no leading zero where numeric
\* segments are numbers (pre-release), and may have one in build metadata.
ParseIdentifier(s, numbers) ==
    LET text == TakeWhile(s, IdentifierChars \cup {"."})
        segments == Split(text, ".")
    IN  [ok |-> /\ Len(text) > 0
                /\ \A i \in 1..Len(segments) :
                      /\ Len(segments[i]) > 0
                      /\ (numbers /\ \A j \in 1..Len(segments[i]) :
                                        segments[i][j] \in Digits)
                            => NumericIdentifier(segments[i]),
         value |-> text, rest |-> Drop(s, Len(text))]

\* The parser's state: what it has read and what is left to read.
ParseStart(s) ==
    [ok |-> TRUE, major |-> <<>>, minor |-> <<>>, patch |-> <<>>, pre |-> <<>>,
     build |-> <<>>, rest |-> s]

\* What was read goes into a field, and the reading goes on after it.
WithRead(r, field, n) == [r EXCEPT !.ok = n.ok, ![field] = n.value, !.rest = n.rest]

\* A number is read into a field.
ReadNumber(r, field) ==
    IF ~r.ok THEN r ELSE WithRead(r, field, ParseNumber(r.rest))

\* A dot is read.
ReadDot(r) ==
    IF ~r.ok THEN r
    ELSE [r EXCEPT !.ok = ParseDot(r.rest).ok, !.rest = Drop(r.rest, 1)]

\* After a sign, an identifier list is read into a field.
ReadIdentifier(r, sign, field, numbers) ==
    IF ~r.ok \/ Len(r.rest) = 0 \/ Head(r.rest) # sign THEN r
    ELSE WithRead(r, field, ParseIdentifier(Drop(r.rest, 1), numbers))

\* Nothing may be left.
ReadEnd(r) == [r EXCEPT !.ok = r.ok /\ r.rest = <<>>]

\* semver::Version::parse
SemverParse(s) ==
    ReadEnd(
      ReadIdentifier(
        ReadIdentifier(
          ReadNumber(ReadDot(ReadNumber(ReadDot(ReadNumber(ParseStart(s), "major")),
                                        "minor")),
                     "patch"),
          "-", "pre", TRUE),
        "+", "build", FALSE))

\* Display of a semver::Version
FormatVersion(version) ==
    version.major \o <<".">> \o version.minor \o <<".">> \o version.patch
        \o (IF version.pre = <<>> THEN <<>> ELSE <<"-">> \o version.pre)
        \o (IF version.build = <<>> THEN <<>> ELSE <<"+">> \o version.build)

\* The version taken as the tag name, as typed.
KeepAsTyped(input) == [ok |-> TRUE, tag |-> input]

\* normalize_semver_tag(input)
normalize_semver_tag(input) ==
    LET trimmed == TrimStartMatches(Trim(input), "v")
        parsed == SemverParse(trimmed)
    IN  IF parsed.ok THEN [ok |-> TRUE, tag |-> <<"v">> \o FormatVersion(parsed)]
        ELSE [ok |-> FALSE, tag |-> <<>>]

\* The version tag_release works on: the flag, else the one of Cargo.toml,
\* else the line typed at the prompt, trimmed.
VersionString(version_flag, cargo_version, line) ==
    IF version_flag # Absent THEN version_flag[1]
    ELSE IF cargo_version # Absent THEN cargo_version[1]
    ELSE Trim(line)

DirtyError ==
    "working tree has uncommitted changes; use --allow-dirty to create a tag anyway"
\* "tag '<name>' already exists; use --force to overwrite"
TagExistsError == "tag already exists; use --force to overwrite"
\* "remote '<name>' not found"
RemoteNotFound == "remote not found"



\* The dirtiness gate of tag_release.  The library function has it; the
\* tag_release of the binary takes _allow_dirty and never looks at the tree.
BlockedByDirtyTree(build, allow_dirty) ==
    build = "lib" /\ ~allow_dirty /\ is_dirty

\* The tags as they were before `git tag` ran.
TagsRolledBack(before, tagged) == before

\* The tags tag_release leaves when it returns an error after `git tag`: the
\* error paths delete nothing.
TagsAfterError(before, tagged) == tagged

\* tag_release(directory, version_flag, message_flag, push, remote, force,
\*             allow_dirty, dry_run), of the library ("lib") or of the binary
\* ("bin").  push_ok is the exit status of `git push <remote> <tag>` as far as
\* the connection goes; the origin rejects moving a tag it already has.
tag_release(build, version_flag, cargo_version, line, push, remote, force, allow_dirty, dry_run, push_ok) ==
    /\ op' = [name |-> "tag", build |-> build, version |-> version_flag,
              push |-> push, force |-> force, allow_dirty |-> allow_dirty,
              dry_run |-> dry_run]
    /\ UNCHANGED <<dirExists, wt, repo, index, commits, head, walk, clock, detached, remotes,
                   originTip, trackTip, originHead, hostedRepo, tempDirs>>
    /\ LET normalized == normalize_semver_tag(
                              VersionString(version_flag, cargo_version, line))
           tag_name == normalized.tag
           exists == tag_name \in DOMAIN tags
           tagged == WithFile(tags, tag_name, head)
           accepted == push_ok /\ (tag_name \in DOMAIN originTags
                                      => originTags[tag_name] = head)
       IN  IF ~repo
           THEN /\ ret' = "could not find repository"
                /\ out' = NoOut
                /\ UNCHANGED <<tags, originTags>>
           ELSE IF BlockedByDirtyTree(build, allow_dirty)
           THEN /\ ret' = DirtyError
                /\ out' = NoOut
                /\ UNCHANGED <<tags, originTags>>
           ELSE IF ~normalized.ok
           THEN /\ ret' = "unexpected character while parsing version"
                /\ out' = NoOut
                /\ UNCHANGED <<tags, originTags>>
           ELSE IF exists /\ ~force
           THEN /\ ret' = TagExistsError
                /\ out' = NoOut
                /\ UNCHANGED <<tags, originTags>>
           ELSE IF dry_run
           THEN /\ ret' = "ok"
                /\ out' = NoOut
                /\ UNCHANGED <<tags, originTags>>
           ELSE IF head = 0
           THEN /\ ret' = "failed to create tag via git"
                /\ out' = [NoOut EXCEPT !.cmds = <<"git tag">>]
                /\ UNCHANGED <<tags, originTags>>
           ELSE IF ~push
           THEN /\ ret' = "ok"
                /\ out' = [NoOut EXCEPT !.cmds = <<"git tag">>]
                /\ tags' = tagged
                /\ UNCHANGED originTags
           ELSE IF ~find_remote(remote)
           THEN /\ ret' = RemoteNotFound
                /\ out' = [NoOut EXCEPT !.cmds = <<"git tag">>]
                /\ tags' = TagsAfterError(tags, tagged)
                /\ UNCHANGED originTags
           ELSE /\ ret' = IF accepted THEN "ok" ELSE "failed to push tag"
                /\ out' = [NoOut EXCEPT !.cmds = <<"git tag", "git push">>]
                /\ tags' = IF accepted THEN tagged ELSE TagsAfterError(tags, tagged)
                /\ originTags' = IF accepted THEN WithFile(originTags, tag_name, head)
                                 ELSE originTags

\* The command has reported and the shell prompts again.
Prompt ==
    /\ op.name = "tag"
    /\ op' = [name |-> "prompt"]
    /\ ret' = "ok"
    /\ out' = NoOut
    /\ UNCHANGED fsVars
    /\ UNCHANGED <<clock, detached>>

Version100 == <<"1", ".", "0", ".", "0">>
VersionV100 == <<"v", "1", ".", "0", ".", "0">>
VersionPadded == <<" ", "v", "1", ".", "0", ".", "0", "LF">>
VersionShort == <<"1", ".", "0">>

VersionFlags == {Some(Version100), Some(VersionV100), Some(VersionShort), Absent}

Builds == {"lib", "bin"}

\* The connection matters only where `git push` is run.
PushOutcomes(push, dry_run) == IF push /\ ~dry_run THEN BOOLEAN ELSE {TRUE}

NextTag ==
    \/ (op.name # "tag" /\ new_repository(FALSE, TRUE))
    \/ (op.name # "tag" /\ \E c \in Contents : WriteFile("a.rs", c))
    \/ (op.name # "tag" /\ GitAdd("a.rs"))
    \/ (op.name # "tag" /\ update_repository(FALSE, None, ""))
    \/ (op.name # "tag" /\ AddOrigin)
    \/ \E b \in Builds, v \in VersionFlags, p \in BOOLEAN, f \in BOOLEAN,
          a \in BOOLEAN, d \in BOOLEAN :
          op.name # "tag" /\ \E k \in PushOutcomes(p, d) :
             tag_release(b, v, Absent, VersionPadded, p, "origin", f, a, d, k)
    \/ Prompt

SpecTag == Init /\ [][NextTag]_vars

(***************************************************************************)
(* Pushing to the hosted remote.                                           *)
(***************************************************************************)
\* The bytes of a path in a tree, empty when the path is absent.
Blob(t, p) == IF p \in DOMAIN t THEN t[p] ELSE <<>>

\* A tree from the bytes of every path, the empty ones left out.
TreeOf(blobs) == [q \in {p \in DOMAIN blobs : blobs[p] # <<>>} |-> blobs[q]]

\* Someone else commits a change of one file on top of the origin's branch
\* and pushes it from another clone.
OtherClonePushes(p, c) ==
    /\ originTip # 0
    /\ Len(commits) < MaxCommits
    /\ Blob(commits[originTip].tree, p) # c
    /\ commits' = Append(commits,
                     NewCommit(WithFile(commits[originTip].tree, p, c),
                               <<originTip>>, "two"))
    /\ originTip' = Len(commits) + 1
    /\ op' = [name |-> "other clone"]
    /\ ret' = "ok"
    /\ out' = NoOut
    /\ UNCHANGED <<dirExists, wt, repo, index, head, walk, clock, detached, tags, remotes,
                   trackTip, originHead, originTags, hostedRepo, tempDirs>>

\* HEAD read as the branch whatever it names.
OnBranch == "master"

\* The branch looked up without regard to how `git ls-remote` exited.
BranchOnRemote(ls_ok) == "origin" \in DOMAIN remotes /\ originTip # 0 /\ ~detached

\* head.shorthand(): the name of the branch HEAD points to, and of a
\* detached HEAD the name HEAD itself.
Shorthand == IF detached THEN "HEAD" ELSE "master"

\* The branches of the origin repository.
OriginBranches == IF originTip # 0 THEN {"master"} ELSE {}

\* The remote never reports the branch.
BranchNeverExists(ls_ok) == FALSE

\* remote_branch_exists(directory, remote, branch): `git ls-remote --heads`
\* exited with success and printed a line.  ls_ok is the connection.
remote_branch_exists(ls_ok) ==
    ls_ok /\ "origin" \in DOMAIN remotes /\ Shorthand \in OriginBranches

\* `git push <remote> <name>` finds a destination for the name: a branch of
\* the remote, or a branch to create when the name is a local branch.
PushDestination == Shorthand \in OriginBranches \cup {"master"}

\* The merge base of HEAD and the origin's tip: their latest common ancestor.
MergeBase ==
    LET common == Reachable(commits, head) \cap Reachable(commits, originTip)
    IN  IF common = {} THEN 0
        ELSE CHOOSE c \in common : \A d \in common : d <= c

\* The three-way merge of one path.
MergedBlob(base, ours, theirs) ==
    IF ours = theirs THEN ours
    ELSE IF ours = base THEN theirs
    ELSE IF theirs = base THEN ours
    ELSE <<"conflict">>

\* The three-way merge of HEAD and the origin's tip, path by path.
MergedBlobs ==
    LET base == IF MergeBase = 0 THEN EmptyTree ELSE commits[MergeBase].tree
    IN  [p \in Paths |-> MergedBlob(Blob(base, p), Blob(commits[head].tree, p),
                                    Blob(commits[originTip].tree, p))]

\* The paths the merge changes on our side.
Touched(merged) == {p \in Paths : merged[p] # Blob(commits[head].tree, p)}

\* The merge written over a tree: the touched paths take the merged bytes.
Checkout(t, merged, touched) ==
    TreeOf([p \in Paths |-> IF p \in touched THEN merged[p] ELSE Blob(t, p)])

\* A pull that left the clone as it was.
NotPulled ==
    [ok |-> FALSE, head |-> head, commits |-> commits, wt |-> wt, index |-> index,
     track |-> trackTip]

\* The outcome of the pull for a merge and the paths it touches: nothing to
\* do, a refusal to overwrite local changes, a fast-forward, a conflict left
\* in the working tree, or a merge commit.
PullOutcome(pull_ok, merged, touched) ==
    IF ~pull_ok THEN NotPulled
    ELSE IF originTip \in Reachable(commits, head)
    THEN [NotPulled EXCEPT !.ok = TRUE, !.track = originTip]
    ELSE IF \E p \in touched :
               \/ Blob(wt, p) # Blob(commits[head].tree, p)
               \/ Blob(index, p) # Blob(commits[head].tree, p)
    THEN [NotPulled EXCEPT !.track = originTip]
    ELSE IF head \in Reachable(commits, originTip)
    THEN [ok |-> TRUE, head |-> originTip, commits |-> commits,
          wt |-> Checkout(wt, merged, touched),
          index |-> Checkout(index, merged, touched), track |-> originTip]
    ELSE IF \E p \in Paths : merged[p] = <<"conflict">>
    THEN [NotPulled EXCEPT !.track = originTip,
                           !.wt = Checkout(wt, merged, touched)]
    ELSE [ok |-> TRUE, head |-> Len(commits) + 1,
          commits |-> Append(commits,
                        NewCommit(TreeOf(merged), <<head, originTip>>, "Merge")),
          wt |-> Checkout(wt, merged, touched),
          index |-> Checkout(index, merged, touched), track |-> originTip]

PullMerging(pull_ok, merged) == PullOutcome(pull_ok, merged, Touched(merged))

\* What `git pull <remote> <branch> --no-edit` does to the clone: fetch, then
\* nothing, a fast-forward or a merge commit.  pull_ok is the connection.
\* The pull fails when both sides changed a path differently, and when the
\* merge would overwrite a local change.
git_pull(pull_ok) == PullMerging(pull_ok, MergedBlobs)

MergeFailed == "Merge failed. Please resolve conflicts and try again."
PushFailed == "Failed to push changes."

\* `git push` after the pull, unless the pull failed.
PushAfterPull(pulled, accepted) ==
    IF ~pulled.ok
    THEN [ret |-> MergeFailed,
          cmds |-> <<"git ls-remote", "git pull --no-edit">>,
          wt |-> pulled.wt, index |-> pulled.index,
          commits |-> pulled.commits, head |-> pulled.head,
          originTip |-> originTip, trackTip |-> pulled.track]
    ELSE [ret |-> IF accepted THEN "ok" ELSE PushFailed,
          cmds |-> <<"git ls-remote", "git pull --no-edit", "git push">>,
          wt |-> pulled.wt, index |-> pulled.index,
          commits |-> pulled.commits, head |-> pulled.head,
          originTip |-> IF accepted THEN pulled.head ELSE originTip,
          trackTip |-> IF accepted THEN pulled.head ELSE pulled.track]

\* The origin takes a push that contains its tip.
PushPulled(pulled, push_ok) ==
    PushAfterPull(pulled,
                  push_ok /\ originTip \in Reachable(pulled.commits, pulled.head))

\* `git push -u` to a remote without the branch.
FirstPush(accepted) ==
    [ret |-> IF accepted THEN "ok" ELSE PushFailed,
     cmds |-> <<"git ls-remote", "git push -u">>,
     wt |-> wt, index |-> index, commits |-> commits, head |-> head,
     originTip |-> IF accepted THEN head ELSE originTip,
     trackTip |-> IF accepted THEN head ELSE trackTip]

\* The git commands of gh_push once HEAD is read: ls-remote, then pull and
\* push, or push -u.  ls_ok, pull_ok and push_ok are the connection at the
\* time of each command; configured, whether the remote is configured.
PushSteps(ls_ok, pull_ok, push_ok, configured) ==
    IF remote_branch_exists(ls_ok)
    THEN PushPulled(git_pull(pull_ok), push_ok)
    ELSE FirstPush(/\ push_ok
                   /\ configured
                   /\ PushDestination
                   /\ originTip \in Reachable(commits, head) \cup {0})

\* The clone and the origin after the commands.
PushDone(pushed) ==
    /\ Len(pushed.commits) <= MaxCommits + 1
    /\ ret' = pushed.ret
    /\ out' = [NoOut EXCEPT !.cmds = pushed.cmds]
    /\ wt' = pushed.wt
    /\ index' = pushed.index
    /\ commits' = pushed.commits
    /\ head' = pushed.head
    /\ IF pushed.head = head THEN walk' = walk
       ELSE walk' \in RevwalkOrders(commits', head')
    /\ originTip' = pushed.originTip
    /\ trackTip' = pushed.trackTip

\* gh_push(directory, remote) for the remote 'origin'.
gh_push(ls_ok, pull_ok, push_ok) ==
    /\ op' = [name |-> "push", ls_ok |-> ls_ok, pull_ok |-> pull_ok,
              push_ok |-> push_ok]
    /\ UNCHANGED <<dirExists, repo, clock, detached, tags, remotes, originHead, originTags,
                   hostedRepo, tempDirs>>
    /\ IF ~repo
       THEN /\ ret' = "could not find repository"
            /\ out' = NoOut
            /\ UNCHANGED <<wt, index, commits, head, walk, originTip, trackTip>>
       ELSE IF head = 0
       THEN /\ ret' = "reference 'refs/heads/master' not found"
            /\ out' = NoOut
            /\ UNCHANGED <<wt, index, commits, head, walk, originTip, trackTip>>
       ELSE PushDone(PushSteps(ls_ok, pull_ok, push_ok, "origin" \in DOMAIN remotes))

\* The connection matters only where a git command that uses it is run.
LsOutcomes == IF "origin" \in DOMAIN remotes /\ originTip # 0 THEN BOOLEAN ELSE {TRUE}
PullOutcomes(ls_ok) == IF remote_branch_exists(ls_ok) THEN BOOLEAN ELSE {TRUE}
PushReadings(ls_ok, pull_ok) ==
    IF remote_branch_exists(ls_ok) /\ ~git_pull(pull_ok).ok THEN {TRUE} ELSE BOOLEAN

\* What the other clone changes.
OtherWrites == {<<"a.rs", TextY>>, <<"b.txt", TextX>>}

NextPush ==
    \/ new_repository(FALSE, TRUE)
    \/ \E c \in Contents : WriteFile("a.rs", c)
    \/ update_repository(FALSE, None, "")
    \/ AddOrigin
    \/ \E w \in OtherWrites : OtherClonePushes(w[1], w[2])
    \/ \E l \in LsOutcomes : \E m \in PullOutcomes(l) : \E k \in PushReadings(l, m) :
          repo /\ head # 0 /\ gh_push(l, m, k)
    \/ (head = 0 /\ gh_push(TRUE, TRUE, TRUE))

SpecPush == Init /\ [][NextPush]_vars

(***************************************************************************)
(* Creating the hosted repository.                                         *)
(***************************************************************************)
\* No flag counted.
CountNoFlags(public, private, internal) == 0

\* (*public as u8) + (*private as u8) + (*internal as u8)
FlagCount(public, private, internal) ==
    (IF public THEN 1 ELSE 0) + (IF private THEN 1 ELSE 0) + (IF internal THEN 1 ELSE 0)

\* The visibility execute_cli selects: the last flag set wins, private
\* without a flag.
SelectedVisibility(public, private, internal) ==
    LET s1 == IF public THEN Some("public") ELSE Absent
        s2 == IF private THEN Some("private") ELSE s1
        s3 == IF internal THEN Some("internal") ELSE s2
    IN  IF s3 # Absent THEN s3[1] ELSE "private"

OnlyOneFlag == "Provide only one of --public/--private/--internal"

\* What the host makes of a creation request that names no visibility:
\* POST /user/repos has "private" default to false.
HostDefaultVisibility == "public"

\* The repository, the remote or the push that `gh repo create --source
\* <dir> --remote origin --push --<visibility>` leaves behind.  The host
\* refuses a name it has; gh a directory that is no repository or has the
\* remote; the push needs a commit.
gh_create_via_cli(visibility, cli_ok) ==
    LET created == cli_ok /\ repo /\ hostedRepo = "none" /\ "origin" \notin DOMAIN remotes
        pushed == created /\ head # 0
    IN  [ret |-> IF pushed THEN "ok" ELSE "GitHub CLI 'gh repo create' failed",
         request |-> visibility,
         hostedRepo |-> IF created THEN visibility ELSE hostedRepo,
         remotes |-> IF created THEN WithFile(remotes, "origin", HostedUrl) ELSE remotes,
         originTip |-> IF pushed THEN head ELSE originTip,
         trackTip |-> IF pushed THEN head ELSE trackTip]

\* gh_create_api(name, description): the request body holds the name and
\* the description.
gh_create_api(token, api_ok) ==
    IF ~token
    THEN [ok |-> FALSE, err |-> "GitHub token not found", cmds |-> <<>>,
          request |-> "none", hostedRepo |-> hostedRepo]
    ELSE IF ~api_ok
    THEN [ok |-> FALSE, err |-> "GitHub API error", cmds |-> <<"GET /user">>,
          request |-> "none", hostedRepo |-> hostedRepo]
    ELSE IF hostedRepo # "none"
    THEN [ok |-> FALSE, err |-> "GitHub API error",
          cmds |-> <<"GET /user", "POST /user/repos">>,
          request |-> "unspecified", hostedRepo |-> hostedRepo]
    ELSE [ok |-> TRUE, err |-> "", cmds |-> <<"GET /user", "POST /user/repos">>,
          request |-> "unspecified", hostedRepo |-> HostDefaultVisibility]

\* execute_cli for Commands::GhCreate.  has_name: the directory path ends in
\* a name; gh_found: gh_cli_path finds the host CLI; token: GITHUB_TOKEN or
\* GH_TOKEN is set; the others are the connection at each command.
gh_create(public, private, internal, has_name, gh_found, cli_ok, token, api_ok, push_ok) ==
    /\ op' = [name |-> "create", public |-> public, private |-> private,
              internal |-> internal, has_name |-> has_name, gh_found |-> gh_found]
    /\ UNCHANGED <<dirExists, repo, clock, detached, tags, originHead, originTags, tempDirs>>
    /\ IF ~has_name
       THEN /\ ret' = "Could not determine repository name from directory"
            /\ out' = NoOut
            /\ UNCHANGED <<wt, index, commits, head, walk, remotes, originTip,
                           trackTip, hostedRepo>>
       ELSE IF FlagCount(public, private, internal) > 1
       THEN /\ ret' = OnlyOneFlag
            /\ out' = NoOut
            /\ UNCHANGED <<wt, index, commits, head, walk, remotes, originTip,
                           trackTip, hostedRepo>>
       ELSE IF gh_found
       THEN LET r == gh_create_via_cli(SelectedVisibility(public, private, internal),
                                       cli_ok)
            IN  /\ ret' = r.ret
                /\ out' = [NoOut EXCEPT !.cmds = <<"gh --version", "gh repo create">>,
                                        !.request = r.request]
                /\ hostedRepo' = r.hostedRepo
                /\ remotes' = r.remotes
                /\ originTip' = r.originTip
                /\ trackTip' = r.trackTip
                /\ UNCHANGED <<wt, index, commits, head, walk>>
       ELSE LET created_repo == gh_create_api(token, api_ok)
                probed == <<"gh --version">> \o created_repo.cmds
            IN  /\ hostedRepo' = created_repo.hostedRepo
                /\ IF ~created_repo.ok
                   THEN /\ ret' = created_repo.err
                        /\ out' = [NoOut EXCEPT !.cmds = probed,
                                                !.request = created_repo.request]
                        /\ UNCHANGED <<wt, index, commits, head, walk, remotes,
                                       originTip, trackTip>>
                   ELSE IF ~repo
                   THEN /\ ret' = "could not find repository"
                        /\ out' = [NoOut EXCEPT !.cmds = probed,
                                                !.request = created_repo.request]
                        /\ UNCHANGED <<wt, index, commits, head, walk, remotes,
                                       originTip, trackTip>>
                   ELSE IF head = 0
                   THEN /\ ret' = "reference 'refs/heads/master' not found"
                        /\ out' = [NoOut EXCEPT !.cmds = probed,
                                                !.request = created_repo.request]
                        /\ remotes' = add_remote("origin", HostedUrl).remotes
                        /\ UNCHANGED <<wt, index, commits, head, walk, originTip,
                                       trackTip>>
                   ELSE LET pushed == PushSteps(TRUE, TRUE, push_ok, TRUE)
                        IN  /\ Len(pushed.commits) <= MaxCommits + 1
                            /\ ret' = pushed.ret
                            /\ out' = [NoOut EXCEPT !.cmds = probed \o pushed.cmds,
                                                    !.request = created_repo.request]
                            /\ remotes' = add_remote("origin", HostedUrl).remotes
                            /\ wt' = pushed.wt
                            /\ index' = pushed.index
                            /\ commits' = pushed.commits
                            /\ head' = pushed.head
                            /\ IF pushed.head = head THEN walk' = walk
                               ELSE walk' \in RevwalkOrders(commits', head')
                            /\ originTip' = pushed.originTip
                            /\ trackTip' = pushed.trackTip

\* The user deletes the hosted repository and the remote that points to it.
DeleteHosted ==
    /\ hostedRepo # "none"
    /\ hostedRepo' = "none"
    /\ remotes' = WithoutFile(remotes, "origin")
    /\ originTip' = 0
    /\ trackTip' = 0
    /\ op' = [name |-> "delete hosted"]
    /\ ret' = "ok"
    /\ out' = NoOut
    /\ UNCHANGED <<dirExists, wt, repo, index, commits, head, walk, clock, detached, tags,
                   originHead, originTags, tempDirs>>

\* The environment matters only where it is looked at.
CliOutcomes(g) == IF g THEN BOOLEAN ELSE {TRUE}
TokenOutcomes(g) == IF g THEN {TRUE} ELSE BOOLEAN
ApiOutcomes(g, t) == IF ~g /\ t THEN BOOLEAN ELSE {TRUE}

NextCreate ==
    \/ MkDir
    \/ new_repository(FALSE, TRUE)
    \/ WriteFile("a.rs", TextX)
    \/ update_repository(FALSE, None, "")
    \/ \E pu \in BOOLEAN, pr \in BOOLEAN, it \in BOOLEAN, n \in BOOLEAN, g \in BOOLEAN :
          \E c \in CliOutcomes(g), t \in TokenOutcomes(g) : \E a \in ApiOutcomes(g, t) :
             \E k \in ApiOutcomes(g, t) :
                gh_create(pu, pr, it, n, g, c, t, a, k)
    \/ DeleteHosted

SpecCreate == Init /\ [][NextCreate]_vars

(***************************************************************************)
(* Scanning a directory tree.                                              *)
(***************************************************************************)
\* scan_total_files(dir) and scan_source_files(dir, max_file_mb), run one
\* after the other as new_repository runs them.
scan(dir, max_file_mb) ==
    /\ dirExists
    /\ op' = [name |-> "scan", dir |-> dir, max_file_mb |-> max_file_mb]
    /\ ret' = "ok"
    /\ LET total_files == scan_total_files(dir, wt, repo)
           scanned == scan_source_files(dir, wt, repo, max_file_mb)
       IN  out' = [NoOut EXCEPT !.source_files = scanned.source_files,
                                !.count = scanned.count,
                                !.total = total_files]
    /\ UNCHANGED fsVars
    /\ UNCHANGED <<clock, detached>>

\* Ignore files a user writes: one that ignores a directory and the Rust
\* files, one that takes back an excluded directory and the ignoring of
\* the documents.
IgnoreDocsAndRust == <<"docs/", "LF", "*.rs">>
IgnoreWithNegations == <<"!target/", "LF", "docs/", "LF", "!*.md">>

ScanWrites ==
    {<<"a.rs", TextX>>, <<"a.rs", OneMiB>>, <<"a.rs", OverOneMiB>>,
     <<"target/a.rs", TextX>>, <<"env", TextX>>,
     <<"docs/c.md", TextX>>, <<"x.log", TextX>>, <<"LICENSE", OverOneMiB>>,
     <<".gitignore", GitignoreContent>>, <<".gitignore", IgnoreDocsAndRust>>,
     <<".gitignore", IgnoreWithNegations>>}

\* 2^44 megabytes are 2^64 bytes, one more than a u64 holds.
TwoTo44 == <<0, 4096, 0, 0>>

MaxFileMbs == {ToU64(0), ToU64(1), TwoTo44, U64Max}

ScanDirs == {RepoDir, BinRepoDir}

\* A run ends with its scan.
NextScan ==
    \/ op.name # "scan" /\ MkDir
    \/ op.name # "scan" /\ GitInit
    \/ op.name # "scan" /\ \E w \in ScanWrites : WriteFile(w[1], w[2])
    \/ op.name # "scan" /\ \E d \in ScanDirs, m \in MaxFileMbs : scan(d, m)

SpecScan == Init /\ [][NextScan]_vars

(***************************************************************************)
(* Classifying file names.                                                 *)
(***************************************************************************)
\* A file of every extension of the table, as written and in upper case.
TableNames == {
    <<"x", ".", "c">>, <<"x", ".", "c", "p", "p">>, <<"x", ".", "c", "c">>,
    <<"x", ".", "c", "x", "x">>, <<"x", ".", "h">>,
    <<"x", ".", "h", "p", "p">>, <<"x", ".", "h", "h">>,
    <<"x", ".", "h", "x", "x">>, <<"x", ".", "j", "a", "v", "a">>,
    <<"x", ".", "p", "y">>, <<"x", ".", "r", "b">>, <<"x", ".", "c", "s">>,
    <<"x", ".", "g", "o">>, <<"x", ".", "p", "h", "p">>,
    <<"x", ".", "r", "s">>, <<"x", ".", "s", "w", "i", "f", "t">>,
    <<"x", ".", "k", "t">>, <<"x", ".", "k", "t", "s">>,
    <<"x", ".", "s", "c", "a", "l", "a">>, <<"x", ".", "j", "s">>,
    <<"x", ".", "j", "s", "x">>, <<"x", ".", "t", "s">>,
    <<"x", ".", "t", "s", "x">>, <<"x", ".", "s", "h">>,
    <<"x", ".", "b", "a", "s", "h">>, <<"x", ".", "z", "s", "h">>,
    <<"x", ".", "b", "a", "t">>, <<"x", ".", "p", "s", "1">>,
    <<"x", ".", "r">>, <<"x", ".", "j", "l">>, <<"x", ".", "m", "m">>,
    <<"x", ".", "c", "m", "a", "k", "e">>,
    <<"x", ".", "p", "r", "o", "t", "o">>,
    <<"x", ".", "g", "r", "a", "p", "h", "q", "l">>,
    <<"x", ".", "g", "q", "l">>, <<"x", ".", "t", "h", "r", "i", "f", "t">>,
    <<"x", ".", "h", "t", "m", "l">>, <<"x", ".", "h", "t", "m">>,
    <<"x", ".", "c", "s", "s">>, <<"x", ".", "s", "c", "s", "s">>,
    <<"x", ".", "s", "a", "s", "s">>, <<"x", ".", "l", "e", "s", "s">>,
    <<"x", ".", "x", "m", "l">>, <<"x", ".", "j", "s", "o", "n">>,
    <<"x", ".", "y", "m", "l">>, <<"x", ".", "y", "a", "m", "l">>,
    <<"x", ".", "t", "o", "m", "l">>, <<"x", ".", "l", "o", "c", "k">>,
    <<"x", ".", "m", "d">>, <<"x", ".", "t", "x", "t">>,
    <<"x", ".", "r", "s", "t">>, <<"x", ".", "a", "d", "o", "c">>,
    <<"x", ".", "i", "p", "y", "n", "b">>, <<"x", ".", "i", "n", "i">>,
    <<"x", ".", "c", "f", "g">>, <<"x", ".", "c", "o", "n", "f">>,
    <<"x", ".", "s", "l", "n">>, <<"x", ".", "c", "s", "p", "r", "o", "j">>,
    <<"x", ".", "p", "o", "m">>, <<"x", ".", "g", "r", "a", "d", "l", "e">>,
    <<"x", ".", "i", "s", "s">>, <<"x", ".", "s", "q", "l">>,
    <<"x", ".", "j", "p", "g">>, <<"x", ".", "j", "p", "e", "g">>,
    <<"x", ".", "p", "n", "g">>, <<"x", ".", "b", "m", "p">>,
    <<"x", ".", "g", "i", "f">>, <<"x", ".", "t", "i", "f", "f">>,
    <<"x", ".", "w", "e", "b", "p">>, <<"x", ".", "s", "v", "g">>,
    <<"x", ".", "i", "c", "o">>, <<"x", ".", "c", "u", "r">>,
    <<"x", ".", "d", "l", "g">>, <<"x", ".", "w", "a", "v">>,
    <<"x", ".", "m", "p", "3">>, <<"x", ".", "f", "l", "a", "c">>,
    <<"x", ".", "a", "a", "c">>, <<"x", ".", "m", "4", "a">>,
    <<"x", ".", "o", "g", "g">>, <<"x", ".", "o", "p", "u", "s">>,
    <<"x", ".", "a", "i", "f", "f">>, <<"x", ".", "a", "i", "f">>,
    <<"x", ".", "w", "m", "a">>, <<"x", ".", "m", "i", "d">>,
    <<"x", ".", "m", "i", "d", "i">>, <<"x", ".", "t", "t", "f">>,
    <<"x", ".", "o", "t", "f">>, <<"x", ".", "w", "o", "f", "f">>,
    <<"x", ".", "w", "o", "f", "f", "2">>, <<"X", ".", "C">>,
    <<"X", ".", "C", "P", "P">>, <<"X", ".", "C", "C">>,
    <<"X", ".", "C", "X", "X">>, <<"X", ".", "H">>,
    <<"X", ".", "H", "P", "P">>, <<"X", ".", "H", "H">>,
    <<"X", ".", "H", "X", "X">>, <<"X", ".", "J", "A", "V", "A">>,
    <<"X", ".", "P", "Y">>, <<"X", ".", "R", "B">>, <<"X", ".", "C", "S">>,
    <<"X", ".", "G", "O">>, <<"X", ".", "P", "H", "P">>,
    <<"X", ".", "R", "S">>, <<"X", ".", "S", "W", "I", "F", "T">>,
    <<"X", ".", "K", "T">>, <<"X", ".", "K", "T", "S">>,
    <<"X", ".", "S", "C", "A", "L", "A">>, <<"X", ".", "J", "S">>,
    <<"X", ".", "J", "S", "X">>, <<"X", ".", "T", "S">>,
    <<"X", ".", "T", "S", "X">>, <<"X", ".", "S", "H">>,
    <<"X", ".", "B", "A", "S", "H">>, <<"X", ".", "Z", "S", "H">>,
    <<"X", ".", "B", "A", "T">>, <<"X", ".", "P", "S", "1">>,
    <<"X", ".", "R">>, <<"X", ".", "J", "L">>, <<"X", ".", "M", "M">>,
    <<"X", ".", "C", "M", "A", "K", "E">>,
    <<"X", ".", "P", "R", "O", "T", "O">>,
    <<"X", ".", "G", "R", "A", "P", "H", "Q", "L">>,
    <<"X", ".", "G", "Q", "L">>, <<"X", ".", "T", "H", "R", "I", "F", "T">>,
    <<"X", ".", "H", "T", "M", "L">>, <<"X", ".", "H", "T", "M">>,
    <<"X", ".", "C", "S", "S">>, <<"X", ".", "S", "C", "S", "S">>,
    <<"X", ".", "S", "A", "S", "S">>, <<"X", ".", "L", "E", "S", "S">>,
    <<"X", ".", "X", "M", "L">>, <<"X", ".", "J", "S", "O", "N">>,
    <<"X", ".", "Y", "M", "L">>, <<"X", ".", "Y", "A", "M", "L">>,
    <<"X", ".", "T", "O", "M", "L">>, <<"X", ".", "L", "O", "C", "K">>,
    <<"X", ".", "M", "D">>, <<"X", ".", "T", "X", "T">>,
    <<"X", ".", "R", "S", "T">>, <<"X", ".", "A", "D", "O", "C">>,
    <<"X", ".", "I", "P", "Y", "N", "B">>, <<"X", ".", "I", "N", "I">>,
    <<"X", ".", "C", "F", "G">>, <<"X", ".", "C", "O", "N", "F">>,
    <<"X", ".", "S", "L", "N">>, <<"X", ".", "C", "S", "P", "R", "O", "J">>,
    <<"X", ".", "P", "O", "M">>, <<"X", ".", "G", "R", "A", "D", "L", "E">>,
    <<"X", ".", "I", "S", "S">>, <<"X", ".", "S", "Q", "L">>,
    <<"X", ".", "J", "P", "G">>, <<"X", ".", "J", "P", "E", "G">>,
    <<"X", ".", "P", "N", "G">>, <<"X", ".", "B", "M", "P">>,
    <<"X", ".", "G", "I", "F">>, <<"X", ".", "T", "I", "F", "F">>,
    <<"X", ".", "W", "E", "B", "P">>, <<"X", ".", "S", "V", "G">>,
    <<"X", ".", "I", "C", "O">>, <<"X", ".", "C", "U", "R">>,
    <<"X", ".", "D", "L", "G">>, <<"X", ".", "W", "A", "V">>,
    <<"X", ".", "M", "P", "3">>, <<"X", ".", "F", "L", "A", "C">>,
    <<"X", ".", "A", "A", "C">>, <<"X", ".", "M", "4", "A">>,
    <<"X", ".", "O", "G", "G">>, <<"X", ".", "O", "P", "U", "S">>,
    <<"X", ".", "A", "I", "F", "F">>, <<"X", ".", "A", "I", "F">>,
    <<"X", ".", "W", "M", "A">>, <<"X", ".", "M", "I", "D">>,
    <<"X", ".", "M", "I", "D", "I">>, <<"X", ".", "T", "T", "F">>,
    <<"X", ".", "O", "T", "F">>, <<"X", ".", "W", "O", "F", "F">>,
    <<"X", ".", "W", "O", "F", "F", "2">> }

\* The special names in several cases and below directories.
SpecialNames == {
    <<"L", "I", "C", "E", "N", "S", "E">>,
    <<"l", "i", "c", "e", "n", "s", "e">>,
    <<"L", "i", "c", "e", "n", "s", "e">>,
    <<"D", "o", "c", "k", "e", "r", "f", "i", "l", "e">>,
    <<"D", "O", "C", "K", "E", "R", "F", "I", "L", "E">>,
    <<"d", "o", "c", "k", "e", "r", "f", "i", "l", "e">>,
    <<"M", "a", "k", "e", "f", "i", "l", "e">>,
    <<"m", "a", "k", "e", "f", "i", "l", "e">>,
    <<"M", "A", "K", "E", "F", "I", "L", "E">>,
    <<"C", "M", "a", "k", "e", "L", "i", "s", "t", "s", ".", "t", "x", "t">>,
    <<"c", "m", "a", "k", "e", "l", "i", "s", "t", "s", ".", "t", "x", "t">>,
    <<"C", "M", "A", "K", "E", "L", "I", "S", "T", "S", ".", "T", "X", "T">>,
    <<"s", "r", "c", "/", "L", "I", "C", "E", "N", "S", "E">>,
    <<"d", "o", "c", "s", "/", "C", "M", "a", "k", "e", "L", "i", "s", "t", "s", ".", "t", "x", "t">> }

\* Names that are neither: unknown or missing extensions, dot files, names
\* that only begin or end like a special name, a non-ASCII capital.
OtherNames == {
    <<"f", "i", "l", "e", ".", "u", "n", "k", "n", "o", "w", "n", "e", "x", "t">>,
    <<"n", "o", "t", "e", "s">>, <<"R", "E", "A", "D", "M", "E">>,
    <<".", "r", "s">>, <<".", "g", "i", "t", "i", "g", "n", "o", "r", "e">>,
    <<"a", ".">>, <<"a", ".", "t", "a", "r", ".", "g", "z">>,
    <<"a", ".", "r", "s", ".", "b", "a", "k">>,
    <<"a", ".", "b", "a", "k", ".", "r", "s">>,
    <<"l", "i", "c", "e", "n", "s", "e", ".", "m", "d">>,
    <<"L", "I", "C", "E", "N", "S", "E", ".", "t", "x", "t">>,
    <<"M", "a", "k", "e", "f", "i", "l", "e", ".", "a", "m">>,
    <<"D", "o", "c", "k", "e", "r", "f", "i", "l", "e", ".", "d", "e", "v">>,
    <<"x", ".", "KELVIN", "t">>, <<"x", ".", "R", "s">>, <<".", ".">>,
    <<"s", "r", "c", "/", ".", ".">>, <<"r", "s">>,
    <<"t", "a", "r", "g", "e", "t", "/", "a", ".", "r", "s">>,
    <<"x", ".", "r", " ", "s">> }

DetectNames == TableNames \cup SpecialNames \cup OtherNames

\* detect_file_type applied to a path.
detect(file_path) ==
    /\ op' = [name |-> "detect", file_path |-> file_path]
    /\ ret' = detect_file_type(file_path)
    /\ out' = NoOut
    /\ UNCHANGED fsVars
    /\ UNCHANGED <<clock, detached>>

NextDetect == \E n \in DetectNames : detect(n)

SpecDetect == Init /\ [][NextDetect]_vars

(***************************************************************************)
(* The dirtiness check.                                                    *)
(***************************************************************************)
\* The user takes a path out of the index and leaves the file
\* (`git rm --cached <path>`).
GitRmCached(p) ==
    /\ repo
    /\ p \in DOMAIN index
    /\ index' = WithoutFile(index, p)
    /\ op' = [name |-> "git rm", path |-> p]
    /\ ret' = "ok"
    /\ out' = NoOut
    /\ UNCHANGED <<dirExists, wt, repo, commits, head, walk, clock, detached, tags, remoteVars,
                   tempDirs>>

\* is_dirty(dir) called on the directory.
dirty_check ==
    /\ op' = [name |-> "is_dirty"]
    /\ ret' = IF ~repo THEN "could not find repository"
              ELSE IF is_dirty THEN "true" ELSE "false"
    /\ out' = NoOut
    /\ UNCHANGED fsVars
    /\ UNCHANGED <<clock, detached>>

DirtyWrites ==
    {<<"a.rs", TextX>>, <<"a.rs", TextY>>, <<"a.rs", TextXCrLf>>,
     <<"b.txt", TextX>>}

\* The one commit of new_repository is the HEAD the check compares with.
NextDirty ==
    \/ MkDir
    \/ GitInit
    \/ new_repository(FALSE, TRUE)
    \/ \E w \in DirtyWrites : WriteFile(w[1], w[2])
    \/ RemoveFile("a.rs")
    \/ \E p \in {"a.rs", "b.txt"} : GitAdd(p)
    \/ GitRmCached("a.rs")
    \/ dirty_check

SpecDirty == Init /\ [][NextDirty]_vars

(***************************************************************************)
(* Version strings.                                                        *)
(***************************************************************************)
ParseError == "unexpected character while parsing version"

\* normalize_semver_tag(input) called on a string.
normalize(input) ==
    /\ op' = [name |-> "normalize", input |-> input]
    /\ LET normalized == normalize_semver_tag(input)
       IN  /\ ret' = IF normalized.ok THEN "ok" ELSE ParseError
           /\ out' = [NoOut EXCEPT !.tag = normalized.tag]
    /\ UNCHANGED fsVars
    /\ UNCHANGED <<clock, detached>>

\* Version strings: plain, prefixed, padded, with pre-release and build
\* parts, and malformed in each part.
SemverInputs == {
    <<"1", ".", "0", ".", "0">>,
    <<"v", "1", ".", "0", ".", "0">>,
    <<" ", "v", "1", ".", "0", ".", "0", "LF">>,
    <<"v", "v", "1", ".", "0", ".", "0">>,
    <<"V", "1", ".", "0", ".", "0">>,
    <<"1", ".", "0">>,
    <<"1", ".", "0", ".", "0", ".", "0">>,
    <<"0", "1", ".", "0", ".", "0">>,
    <<"1", ".", "0", "0", ".", "0">>,
    <<"0", ".", "0", ".", "0">>,
    <<"1", "0", ".", "2", "0", ".", "3", "0">>,
    <<"1", ".", "0", ".", "0", "-", "r", "c", ".", "1">>,
    <<"v", "1", ".", "0", ".", "0", "-", "r", "c", ".", "1", "+", "b", ".", "7">>,
    <<" ", "v", "v", "1", ".", "0", ".", "0", "-", "r", "c", ".", "1", "+", "0", "0", "7", "CR", "LF">>,
    <<"1", ".", "0", ".", "0", "+", "0", "0", "7">>,
    <<"1", ".", "0", ".", "0", "-", "0", "1">>,
    <<"1", ".", "0", ".", "0", "-", "0", "a">>,
    <<"1", ".", "0", ".", "0", "-", "0">>,
    <<"1", ".", "0", ".", "0", "-">>,
    <<"1", ".", "0", ".", "0", "+">>,
    <<"1", ".", "0", ".", "0", "-", "a", ".", ".", "b">>,
    <<"1", ".", "0", ".", "0", "-", "a", "+", "b", "+", "c">>,
    <<"1", ".", "0", ".", "0", " ", "-", "a">>,
    <<>>,
    <<"v">>,
    <<" ">>,
    <<"1", ".", "0", ".", "0", "-", "v", "1">>,
    <<"v", " ", "1", ".", "0", ".", "0">>,
    <<"1", ".", "0", ".", "0", "v">>,
    <<"1", ".", ".", "0">>,
    <<"a", ".", "b", ".", "c">>,
    <<"1", "8", "4", "4", "6", "7", "4", "4", "0", "7", "3", "7", "0", "9", "5", "5", "1", "6", "1", "5", ".", "0", ".", "0">>,
    <<"1", "8", "4", "4", "6", "7", "4", "4", "0", "7", "3", "7", "0", "9", "5", "5", "1", "6", "1", "6", ".", "0", ".", "0">>,
    <<"1", ".", "0", ".", "0", "-", "-">>,
    <<"1", ".", "0", ".", "0", "-", "a", "_", "b">>,
    <<"1", ".", "0", ".", "0", "+", "-">>,
    <<"1", ".", "0", ".", "0", "-", "r", "c", ".", "0", "1">>,
    <<"1", ".", "0", ".", "0", "+", "b", ".", "-", ".", "1">>,
    <<"1", ".", "0", ".", "0", "-", "+", "b">>,
    <<"1", ".", " ", "0", ".", "0">>,
    <<"-", "1", ".", "0", ".", "0">>,
    <<"+", "1", ".", "0", ".", "0">>,
    <<"1", ".", "0", ".", "0", "TAB", "v">> }

\* The strings are normalized alone, and given to tag_release as --version
\* in a repository that has no tag yet.
NextSemver ==
    \/ new_repository(FALSE, TRUE)
    \/ \E i \in SemverInputs : normalize(i)
    \/ \E b \in Builds, i \in SemverInputs :
          /\ DOMAIN tags = {}
          /\ tag_release(b, Some(i), Absent, <<>>, FALSE, "origin", FALSE, TRUE,
                         FALSE, TRUE)

SpecSemver == Init /\ [][NextSemver]_vars

(***************************************************************************)
(* Registering remotes.                                                    *)
(***************************************************************************)
\* A call of add_remote(directory, remote_name, remote_url).
AddRemote(remote_name, remote_url) ==
    /\ op' = [name |-> "add_remote", remote_name |-> remote_name,
              remote_url |-> remote_url]
    /\ out' = NoOut
    /\ IF ~repo
       THEN /\ ret' = "could not find repository"
            /\ remotes' = remotes
       ELSE LET added == add_remote(remote_name, remote_url)
            IN  /\ ret' = IF added.ok THEN "ok" ELSE added.err
                /\ remotes' = added.remotes
    /\ UNCHANGED <<dirExists, wt, repo, index, commits, head, walk, clock, detached, tags,
                   originTip, trackTip, originHead, originTags, hostedRepo, tempDirs>>

\* `git remote remove <name>` by the user.
RemoveRemote(remote_name) ==
    /\ repo
    /\ remote_name \in DOMAIN remotes
    /\ remotes' = WithoutFile(remotes, remote_name)
    /\ op' = [name |-> "remote remove", remote_name |-> remote_name]
    /\ ret' = "ok"
    /\ out' = NoOut
    /\ UNCHANGED <<dirExists, wt, repo, index, commits, head, walk, clock, detached, tags,
                   originTip, trackTip, originHead, originTags, hostedRepo, tempDirs>>

RemoteNames == {"origin", "upstream", "backup", ""}
RemoteUrls == {HostedUrl, OtherUrl}

NextRemote ==
    \/ MkDir
    \/ GitInit
    \/ \E n \in RemoteNames, u \in RemoteUrls : AddRemote(n, u)
    \/ \E n \in RemoteNames : RemoveRemote(n)

SpecRemote == Init /\ [][NextRemote]_vars

(***************************************************************************)
(* Materializing a tree.                                                   *)
(***************************************************************************)
\* The directory a tree is checked out to.
OutDir == <<"out", <<>>, 0>>

\* checkout_tree_to_dir of the tree of commit c into a directory that does
\* not exist yet.
checkout(c) ==
    /\ repo
    /\ c \in 1..Len(commits)
    /\ op' = [name |-> "checkout", commit |-> c]
    /\ ret' = "ok"
    /\ out' = [NoOut EXCEPT !.commit = c,
                            !.dirs = CheckoutTree(commits[c].tree, <<>>).dirs]
    /\ tempDirs' = checkout_tree_to_dir(WithFile(tempDirs, OutDir, EmptyTree),
                                        commits[c].tree, OutDir)
    /\ UNCHANGED <<dirExists, wt, repo, index, commits, head, walk, clock, detached, tags,
                   remoteVars>>

CheckoutWrites == {<<"a.rs", TextX>>, <<"docs/c.md", TextX>>,
                   <<"src/m/d.rs", TextXCrLf>>, <<"src/m/d.rs", TextY>>}

NextCheckout ==
    \/ op.name # "checkout" /\ MkDir
    \/ op.name # "checkout" /\ \E w \in CheckoutWrites : WriteFile(w[1], w[2])
    \/ op.name # "checkout" /\ new_repository(FALSE, TRUE)
    \/ op.name # "checkout" /\ \E c \in 1..MaxCommits : checkout(c)

SpecCheckout == Init /\ [][NextCheckout]_vars

(***************************************************************************)
(* Temporary directories.                                                  *)
(***************************************************************************)
\* A call of create_temp_dir(prefix) when the clock reads nanos.
make_temp_dir(prefix, nanos) ==
    /\ tempDirs' = create_temp_dir(tempDirs, prefix, nanos)
    /\ op' = [name |-> "create_temp_dir", prefix |-> prefix,
              path |-> TempDirPath(prefix, nanos)]
    /\ ret' = "ok"
    /\ out' = NoOut
    /\ UNCHANGED <<dirExists, wt, repo, index, commits, head, walk, clock, detached, tags,
                   remoteVars>>

\* Prefixes for create_temp_dir: the one of tests/fs_utils.rs, and one as
\* diff_command forms them.
TempPrefixes == {<<"mdcode", <<"test", 0>>>>, <<"before", FormatTimestamp(0)>>}

IndexPairs == {<<<<"0">>, <<"0">>>>, <<<<"0">>, <<"1">>>>, <<<<"1">>, <<"0">>>>}

NextTemp ==
    \/ new_repository(FALSE, TRUE)
    \/ WriteFile("a.rs", TextX)
    \/ update_repository(FALSE, None, "")
    \/ \E v \in IndexPairs, n1 \in 0..MaxNanos, n2 \in 0..MaxNanos :
          diff_command(v, FALSE, TRUE, TRUE, n1, n2)
    \/ \E prefix \in TempPrefixes, nanos \in 0..MaxNanos : make_temp_dir(prefix, nanos)

SpecTemp == Init /\ [][NextTemp]_vars

(***************************************************************************)
(* The head of the hosted remote.                                          *)
(***************************************************************************)
\* A call of get_remote_head_commit(repo, dir) on the opened repository.
remote_head(fetch_ok, show_ok) ==
    /\ repo
    /\ LET remote_head_commit == get_remote_head_commit(fetch_ok, show_ok)
       IN  /\ ret' = IF remote_head_commit.ok THEN "ok" ELSE remote_head_commit.err
           /\ out' = [NoOut EXCEPT !.commit = remote_head_commit.commit]
           /\ trackTip' = remote_head_commit.track
    /\ op' = [name |-> "remote_head", fetch_ok |-> fetch_ok, show_ok |-> show_ok]
    /\ UNCHANGED <<dirExists, wt, repo, index, commits, head, walk, clock, detached, tags,
                   remotes, originTip, originHead, originTags, hostedRepo, tempDirs>>

\* The selector lists that ask for the hosted head.
HostedLists == {<<<<"H">>, <<"0">>>>, <<<<"h">>, <<"x">>>>, <<<<"L">>>>, <<<<"H">>>>}

NextHosted ==
    \/ (op.name # "diff" /\ new_repository(FALSE, TRUE))
    \/ (op.name # "diff" /\ AddOrigin)
    \/ (op.name # "diff" /\ PublishTip)
    \/ (op.name # "diff" /\ SetOriginHead)
    \/ (op.name # "diff" /\ OtherClonePushes("a.rs", TextY))
    \/ (op.name # "diff" /\ \E f \in BOOLEAN, sh \in BOOLEAN : remote_head(f, sh))
    \/ (op.name # "diff" /\ \E v \in HostedLists, d \in BOOLEAN, f \in BOOLEAN,
                                sh \in BOOLEAN : diff_command(v, d, f, sh, 0, 0))

SpecHosted == Init /\ [][NextHosted]_vars

(***************************************************************************)
(* Fetching and synchronizing with the remote.                             *)
(***************************************************************************)
\* `git checkout --detach` by the user.
DetachHead ==
    /\ repo
    /\ head # 0
    /\ ~detached
    /\ detached' = TRUE
    /\ op' = [name |-> "detach"]
    /\ ret' = "ok"
    /\ out' = NoOut
    /\ UNCHANGED <<dirExists, wt, repo, index, commits, head, walk, clock, tags,
                   remoteVars, tempDirs>>

\* The commits `git log HEAD..<remote>/<branch>` lists.
Incoming == Reachable(commits, trackTip) \ Reachable(commits, head)

\* gh_fetch(directory, remote) for the remote 'origin'.  fetch_ok and ls_ok
\* are the connection at `git fetch` and at `git ls-remote`.
gh_fetch(fetch_ok, ls_ok) ==
    /\ op' = [name |-> "fetch", fetch_ok |-> fetch_ok, ls_ok |-> ls_ok]
    /\ UNCHANGED <<dirExists, wt, repo, index, commits, head, walk, clock, detached,
                   tags, remotes, originTip, originHead, originTags, hostedRepo,
                   tempDirs>>
    /\ IF ~repo
       THEN /\ ret' = "could not find repository"
            /\ out' = NoOut
            /\ trackTip' = trackTip
       ELSE IF ~(fetch_ok /\ "origin" \in DOMAIN remotes)
       THEN /\ ret' = "git fetch failed"
            /\ out' = [NoOut EXCEPT !.cmds = <<"git fetch">>]
            /\ trackTip' = trackTip
       ELSE /\ trackTip' = IF originTip # 0 THEN originTip ELSE trackTip
            /\ IF head = 0
               THEN /\ ret' = "reference 'refs/heads/master' not found"
                    /\ out' = [NoOut EXCEPT !.cmds = <<"git fetch">>]
               ELSE IF ~remote_branch_exists(ls_ok)
               THEN /\ ret' = "ok"
                    /\ out' = [NoOut EXCEPT !.cmds = <<"git fetch", "git ls-remote">>]
               ELSE /\ ret' = "ok"
                    /\ out' = [NoOut EXCEPT
                                 !.cmds = <<"git fetch", "git ls-remote", "git log">>,
                                 !.count = Cardinality(Incoming')]

\* `git pull <remote> <branch>` of gh_sync and what it returns.
SyncPulled(pulled) ==
    [ret |-> IF pulled.ok THEN "ok" ELSE "git pull failed",
     cmds |-> <<"git ls-remote", "git pull">>,
     wt |-> pulled.wt, index |-> pulled.index,
     commits |-> pulled.commits, head |-> pulled.head,
     originTip |-> originTip, trackTip |-> pulled.track]

\* gh_sync returning before the pull.
SyncSkipped ==
    [ret |-> "ok", cmds |-> <<"git ls-remote">>, wt |-> wt, index |-> index,
     commits |-> commits, head |-> head, originTip |-> originTip,
     trackTip |-> trackTip]

\* gh_sync(directory, remote) for the remote 'origin'.
gh_sync(ls_ok, pull_ok) ==
    /\ op' = [name |-> "sync", ls_ok |-> ls_ok, pull_ok |-> pull_ok]
    /\ UNCHANGED <<dirExists, repo, clock, detached, tags, remotes, originHead,
                   originTags, hostedRepo, tempDirs>>
    /\ IF ~repo
       THEN /\ ret' = "could not find repository"
            /\ out' = NoOut
            /\ UNCHANGED <<wt, index, commits, head, walk, originTip, trackTip>>
       ELSE IF head = 0
       THEN /\ ret' = "reference 'refs/heads/master' not found"
            /\ out' = NoOut
            /\ UNCHANGED <<wt, index, commits, head, walk, originTip, trackTip>>
       ELSE IF ~remote_branch_exists(ls_ok)
       THEN PushDone(SyncSkipped)
       ELSE PushDone(SyncPulled(git_pull(pull_ok)))

NextBranch ==
    \/ new_repository(FALSE, TRUE)
    \/ WriteFile("a.rs", TextX)
    \/ update_repository(FALSE, None, "")
    \/ AddOrigin
    \/ PublishTip
    \/ OtherClonePushes("a.rs", TextY)
    \/ DetachHead
    \/ \E l \in BOOLEAN, m \in BOOLEAN, k \in BOOLEAN : gh_push(l, m, k)
    \/ \E f \in BOOLEAN, l \in BOOLEAN : gh_fetch(f, l)
    \/ \E l \in BOOLEAN, m \in BOOLEAN : gh_sync(l, m)

SpecBranch == Init /\ [][NextBranch]_vars

(***************************************************************************)
(* The ignore file.                                                        *)
(***************************************************************************)
\* What the user writes in a directory that may hold an ignore file of its
\* own before the tool writes one.
IgnoreWrites ==
    {<<"a.rs", TextX>>, <<"a.rs", TextY>>, <<"b.txt", TextX>>,
     <<".gitignore", IgnoreWithNegations>>, <<".gitignore", TextX>>}

NextIgnore ==
    \/ MkDir
    \/ \E w \in IgnoreWrites : WriteFile(w[1], w[2])
    \/ RemoveFile(".gitignore")
    \/ GitInit
    \/ new_repository(FALSE, TRUE)
    \/ \E d \in BOOLEAN : update_repository(d, None, "")

SpecIgnore == Init /\ [][NextIgnore]_vars

(***************************************************************************)
(* Properties.                                                             *)
(***************************************************************************)
\* The number of commits reachable from HEAD.
HistoryLength == Cardinality(Reachable(commits, head))

Found(c) == [ok |-> TRUE, commit |-> c]

\* C1: the display index info_repository prints next to a commit is, for
\* every d in 0..N-1, the index for which get_commit_by_index, and the
\* selector resolution of diff_command given the index as printed or as a
\* plain decimal, returns that same commit; index 0 resolves to the commit
\* HEAD points to; and what get_commit_by_index returns for an index is the
\* commit listed under it.
C1_ListingAndResolverAgree ==
    /\ (op.name = "info" /\ ret = "ok") =>
          /\ {out.listing[k].display_index : k \in 1..Len(out.listing)}
                = 0..(HistoryLength - 1)
          /\ \A k \in 1..Len(out.listing) :
                LET e == out.listing[k]
                IN  /\ CommitByIndex(walk, e.display_index) = Found(e.commit)
                    /\ ResolveSelector(e.shown) = Found(e.commit)
                    /\ ResolveSelector(Decimal(e.display_index)) = Found(e.commit)
          /\ CommitByIndex(walk, 0) = Found(head)
    /\ (op.name = "get" /\ ret = "ok") =>
          \E k \in 1..Len(InfoListing(walk)) :
             /\ InfoListing(walk)[k].display_index = op.idx
             /\ InfoListing(walk)[k].commit = out.commit

\* A listing of three commits made in different seconds.
C1_Witness ==
    /\ op.name = "info"
    /\ ret = "ok"
    /\ Len(out.listing) >= 3
    /\ commits[out.listing[1].commit].time < commits[out.listing[3].commit].time

ReachesSelector(i) ==
    IF i = 1
    THEN ~(Len(op.versions) = 2 /\ op.versions[1] \in {<<"H">>, <<"h">>})
            /\ ~(Len(op.versions) = 1 /\ op.versions[1] \in {<<"L">>, <<"l">>})
    ELSE Len(op.versions) = 2 /\ out.before.kind = "commit"

\* C3: over a history of N commits, get_commit_by_index returns a commit,
\* the one at that position of the time-descending walk, if and only if
\* 0 <= idx < N, and the error 'Index out of bounds' for every other 32-bit
\* index, negative ones included; diff_command reports a selector that is an
\* integer outside 0..N-1 as 'invalid repo indexes specified'.
C3_IndexBounds ==
    /\ op.name = "get" =>
          /\ (ret = "ok") <=> (0 <= op.idx /\ op.idx < HistoryLength)
          /\ ret = "ok" => out.commit = walk[op.idx + 1]
          /\ ret # "ok" => (ret = "Index out of bounds" /\ out.commit = 0)
    /\ (op.name = "diff" /\ repo) =>
          \A i \in 1..Len(op.versions) :
             LET parsed == ParseI32(op.versions[i])
             IN  (/\ ReachesSelector(i)
                  /\ parsed.ok
                  /\ ~(0 <= parsed.value /\ parsed.value < HistoryLength))
                    => ret = InvalidIndexes

\* A negative index refused over a history of two commits or more.
C3_Witness ==
    /\ op.name = "get"
    /\ op.idx < 0
    /\ ret = "Index out of bounds"
    /\ HistoryLength >= 2

ValidIndex(selector) ==
    /\ ParseI32(selector).ok
    /\ 0 <= ParseI32(selector).value
    /\ ParseI32(selector).value < HistoryLength

CommitAt(selector) == walk[ParseI32(selector).value + 1]

RemoteErrors == {"Remote 'origin' not found", "git fetch failed",
                 "git remote show origin failed", RefNotFound}

IsH(selector) == selector \in {<<"H">>, <<"h">>}
IsL(selector) == selector \in {<<"L">>, <<"l">>}

C5_DryRunChangesNothing ==
    [][(op'.name \in {"new", "update", "diff", "tag"} /\ op'.dry_run)
          => UNCHANGED fsVars]_vars

\* C6: a successful update_repository that is no dry run makes no commit
\* when the tree of the re-staged index is the tree of the tip; otherwise it
\* adds exactly one commit, with the previous tip as only parent and the
\* staged tree as tree, and moves HEAD to it; run again at once, it adds no
\* second commit.
C6_UpdateCommitsOnce ==
    [][/\ (op'.name = "update" /\ ~op'.dry_run /\ ret' = "ok") =>
             IF index' = commits[head].tree
             THEN commits' = commits /\ head' = head
             ELSE /\ Len(commits') = Len(commits) + 1
                  /\ SubSeq(commits', 1, Len(commits)) = commits
                  /\ head' = Len(commits')
                  /\ commits'[head'].parents = <<head>>
                  /\ commits'[head'].tree = index'
       /\ (/\ op.name = "update" /\ ~op.dry_run /\ ret = "ok"
           /\ op'.name = "update" /\ ~op'.dry_run) =>
             (ret' = "ok" /\ commits' = commits /\ head' = head)
      ]_vars

\* update_repository has committed a change on top of an earlier commit.
C6_Witness ==
    /\ op.name = "update"
    /\ ~op.dry_run
    /\ ret = "ok"
    /\ head >= 2
    /\ commits[head].parents = <<head - 1>>
    /\ commits[head].tree = index
    /\ commits[head].tree # commits[head - 1].tree

\* C7: when a file of the tip commit has been deleted from the working tree,
\* a successful update_repository that is no dry run creates a new commit
\* whose tree no longer contains that path.
C7_RemovalsRecorded ==
    [][(/\ op'.name = "update" /\ ~op'.dry_run /\ ret' = "ok"
        /\ \E p \in DOMAIN commits[head].tree : p \notin DOMAIN wt) =>
          /\ head' # head
          /\ \A p \in DOMAIN commits[head].tree :
                p \notin DOMAIN wt => p \notin DOMAIN commits'[head'].tree
      ]_vars

AlreadyExists == "git repository already exists"

\* C8: with git installed, new_repository fails with 'git repository
\* already exists', and changes nothing, exactly when the path holds a
\* repository whose HEAD resolves to a commit; otherwise a run that is no dry
\* run ends with HEAD at a single parentless commit 'Initial commit' whose
\* tree holds every scanned candidate file as it is in the working tree; and
\* a new_repository right after it fails.
C8_NewRepository ==
    [][/\ (op'.name = "new" /\ op'.git) =>
             /\ (ret' = AlreadyExists) <=> (dirExists /\ repo /\ head # 0)
             /\ ret' = AlreadyExists => UNCHANGED fsVars
             /\ (ret' # AlreadyExists /\ ~op'.dry_run) =>
                   /\ ret' = "ok"
                   /\ dirExists' /\ repo'
                   /\ head' # 0
                   /\ Reachable(commits', head') = {head'}
                   /\ commits'[head'].parents = <<>>
                   /\ commits'[head'].message = "Initial commit"
                   /\ \A p \in Members(scan_source_files(RepoDir, wt, repo,
                                  DefaultMaxFileMb).source_files) :
                         /\ p \in DOMAIN commits'[head'].tree
                         /\ commits'[head'].tree[p] = wt[p]
       /\ (/\ op.name = "new" /\ op.git /\ ~op.dry_run /\ ret = "ok"
           /\ op'.name = "new" /\ op'.git) => ret' = AlreadyExists
      ]_vars

\* new_repository has committed the candidate files of a directory.
C8_Witness ==
    /\ op.name = "new"
    /\ ~op.dry_run
    /\ ret = "ok"
    /\ head # 0
    /\ commits[head].message = "Initial commit"
    /\ DOMAIN commits[head].tree = {"a.rs", "b.txt"}
    /\ "notes" \in DOMAIN wt

TagV100 == VersionV100

\* Whether tag_release got past its dirtiness gate, seen from before the call.
PassesDirtyGate(build, allow_dirty) == build = "bin" \/ allow_dirty \/ ~is_dirty

\* C9: tag_release for a version whose normalized tag name exists fails,
\* without force, with the 'already exists' error, leaves the tag where it
\* is and runs neither git tag nor git push, in a dry run as in a real one;
\* with force, a real run moves the tag to the current HEAD and, when no
\* push was asked for, succeeds.
C9_ExistingTag ==
    [][(/\ op'.name = "tag"
        /\ op'.version \in {Some(Version100), Some(VersionV100), Absent}
        /\ repo
        /\ TagV100 \in DOMAIN tags
        /\ PassesDirtyGate(op'.build, op'.allow_dirty)) =>
          IF ~op'.force
          THEN /\ ret' = TagExistsError
               /\ tags' = tags
               /\ originTags' = originTags
               /\ out'.cmds = <<>>
          ELSE IF op'.dry_run
          THEN ret' = "ok" /\ tags' = tags /\ originTags' = originTags
                  /\ out'.cmds = <<>>
          ELSE /\ tags' = [tags EXCEPT ![TagV100] = head]
               /\ ~op'.push => ret' = "ok"
      ]_vars

\* The tag of an older commit was asked for again, as 1.0.0, and refused.
C9_Witness ==
    /\ op.name = "tag"
    /\ op.version = Some(Version100)
    /\ ~op.force
    /\ ret = TagExistsError
    /\ TagV100 \in DOMAIN tags
    /\ tags[TagV100] # head

\* C10: tag_release with allow_dirty = false on a repository for which
\* is_dirty is true returns the 'working tree has uncommitted changes' error
\* and creates or pushes no tag, in the library and in the binary alike.
C10_DirtyTreeBlocksTag ==
    [][(op'.name = "tag" /\ repo /\ ~op'.allow_dirty /\ is_dirty) =>
          /\ ret' = DirtyError
          /\ tags' = tags
          /\ originTags' = originTags
      ]_vars

\* Whether a real run of tag_release gets as far as `git tag` and the tag is
\* made, seen from before the call.
CreatesTag ==
    /\ repo
    /\ head # 0
    /\ PassesDirtyGate(op'.build, op'.allow_dirty)
    /\ ~op'.dry_run
    /\ op'.version \in {Some(Version100), Some(VersionV100), Absent}
    /\ (TagV100 \in DOMAIN tags => op'.force)

\* C11: tag_release with push requested and a remote that is not configured
\* never runs git push and changes no tag of the remote; when the run has
\* created the tag, it returns the 'remote not found' error, having run git
\* tag only.
C11_PushNeedsRemote ==
    [][(op'.name = "tag" /\ op'.push /\ "origin" \notin DOMAIN remotes) =>
          /\ \A k \in 1..Len(out'.cmds) : out'.cmds[k] # "git push"
          /\ originTags' = originTags
          /\ ret' # "failed to push tag"
          /\ CreatesTag => (ret' = RemoteNotFound /\ out'.cmds = <<"git tag">>)
      ]_vars

\* A tag was created and its push refused for want of the remote.
C11_Witness ==
    /\ op.name = "tag"
    /\ op.push
    /\ ~op.dry_run
    /\ ret = RemoteNotFound
    /\ "origin" \notin DOMAIN remotes
    /\ TagV100 \in DOMAIN tags
    /\ out.cmds = <<"git tag">>

\* C12: a gh_push that gets to ask the remote runs one of three command
\* sequences.  When the remote reports the current branch: ls-remote, pull
\* --no-edit and, only after a pull that succeeded, a plain push; a failed
\* pull ends the call with the 'Merge failed' error, no push run and the
\* remote branch where it was.  When the remote reports no such branch:
\* ls-remote and push -u, no pull.  A push that ran and did not succeed is
\* 'Failed to push changes.', and leaves the remote branch where it was.
C12_PullBeforePush ==
    [][(op'.name = "push" /\ repo /\ head # 0) =>
          LET cmds == out'.cmds
              reported == op'.ls_ok /\ "origin" \in DOMAIN remotes /\ originTip # 0
          IN  /\ reported =>
                    \/ /\ cmds = <<"git ls-remote", "git pull --no-edit">>
                       /\ ret' = MergeFailed
                       /\ originTip' = originTip
                    \/ /\ cmds = <<"git ls-remote", "git pull --no-edit", "git push">>
                       /\ ret' \in {"ok", PushFailed}
                       /\ op'.pull_ok
              /\ ~reported =>
                    /\ cmds = <<"git ls-remote", "git push -u">>
                    /\ ret' \in {"ok", PushFailed}
                    /\ UNCHANGED <<commits, head, wt, index>>
              /\ ret' = PushFailed => originTip' = originTip
              /\ ret' = "ok" => (originTip' = head' /\ op'.push_ok)
              /\ (cmds[Len(cmds)] \in {"git push", "git push -u"} /\ ~op'.push_ok)
                    => ret' = PushFailed
      ]_vars

\* The pull of a gh_push met a conflicting commit of another clone.
C12_Witness ==
    /\ op.name = "push"
    /\ op.pull_ok
    /\ ret = MergeFailed
    /\ out.cmds = <<"git ls-remote", "git pull --no-edit">>
    /\ originTip \notin Reachable(commits, head)
    /\ head \notin Reachable(commits, originTip)

\* C13: gh_create for a directory with a name and more than one of the
\* flags public, private and internal returns the 'Provide only one' error,
\* having probed and run no host CLI and made no request or push, and
\* changes nothing; with one flag a creation request names that flag's
\* visibility, and with no flag private, when it names one.
C13_OneVisibilityFlag ==
    [][(op'.name = "create" /\ op'.has_name) =>
          LET count == (IF op'.public THEN 1 ELSE 0) + (IF op'.private THEN 1 ELSE 0)
                          + (IF op'.internal THEN 1 ELSE 0)
              flag == IF op'.public THEN "public"
                      ELSE IF op'.internal THEN "internal" ELSE "private"
          IN  /\ count > 1 =>
                    /\ ret' = OnlyOneFlag
                    /\ out'.cmds = <<>>
                    /\ out'.request = "none"
                    /\ UNCHANGED fsVars
              /\ count <= 1 =>
                    /\ SelectedVisibility(op'.public, op'.private, op'.internal) = flag
                    /\ ret' # OnlyOneFlag
                    /\ out'.cmds # <<>>
                    /\ out'.cmds[1] = "gh --version"
                    /\ out'.request \in {"none", "unspecified", flag}
                    /\ op'.gh_found => out'.request = flag
      ]_vars

\* Two flags were refused although the host CLI was there and the
\* directory held a repository with a commit.
C13_Witness ==
    /\ op.name = "create"
    /\ op.has_name
    /\ op.public
    /\ op.internal
    /\ op.gh_found
    /\ ret = OnlyOneFlag
    /\ head # 0
    /\ hostedRepo = "none"

\* C14: whenever gh_create creates the hosted repository, through the host
\* CLI or through the token-based API, the creation request names the
\* selected visibility, private when no flag was given, and the repository
\* has it.
C14_CreatedWithSelectedVisibility ==
    [][(op'.name = "create" /\ hostedRepo = "none" /\ hostedRepo' # "none") =>
          LET flag == IF op'.public THEN "public"
                      ELSE IF op'.internal THEN "internal" ELSE "private"
          IN  /\ out'.request = flag
              /\ hostedRepo' = flag
      ]_vars

\* The names between the separators of the path a scan sees for a file.
ScannedComponents(p) == Members(Split(JoinPath(op.dir, PathChars(p)), "/"))

\* C15: after a scan, no file whose path has a component equal to one of
\* the fixed excluded names is among the candidates of scan_source_files or
\* in the count of scan_total_files, whatever the ignore file holds, and no
\* file the ignore file ignores is: either test alone removes the file.
C15_ExcludedNamesLeftOut ==
    op.name = "scan" =>
        LET excluded == {p \in DOMAIN wt : ScannedComponents(p) \cap ExcludedNames # {}}
            ignored == {p \in DOMAIN wt : IgnoredByGitignore(wt, p)}
        IN  /\ Members(out.source_files) \cap (excluded \cup ignored) = {}
            /\ out.total <= Cardinality((DOMAIN wt) \ (excluded \cup ignored))

\* A scan of a tree whose ignore file takes back the excluded directory
\* `target` left out the file below it and kept the one beside it.
C15_Witness ==
    /\ op.name = "scan"
    /\ op.dir = RepoDir
    /\ {".gitignore", "a.rs", "target/a.rs", "x.log"} \subseteq DOMAIN wt
    /\ wt[".gitignore"] = IgnoreWithNegations
    /\ "a.rs" \in Members(out.source_files)
    /\ "target/a.rs" \notin Members(out.source_files)
    /\ out.total = Cardinality(DOMAIN wt) - 1

\* size <= max_file_mb * 1048576, on whole mebibytes and the bytes over.
SizeWithinCap(size, max_file_mb) ==
    LET whole == ToU64(size \div BytesPerMiB)
        over == size % BytesPerMiB
    IN  \/ LimbsLess(whole, max_file_mb)
        \/ whole = max_file_mb /\ over = 0

\* The files of the tree that a scan's filters let through.
Surviving ==
    {p \in DOMAIN wt :
        /\ ScannedComponents(p) \cap ExcludedNames = {}
        /\ ~IgnoredByGitignore(wt, p)
        /\ ~SkippedByWalker(wt, p, repo)}

C16_WitnessHugeCap ==
    /\ op.name = "scan"
    /\ op.max_file_mb = TwoTo44
    /\ "LICENSE" \in Members(out.source_files)

\* The labels the table has for the lower-cased extension of a path.
TableLabels(file_path) ==
    LET extension == Extension(file_path)
    IN  IF extension = Absent THEN {}
        ELSE {e[2] : e \in {t \in ExtensionTable : t[1] = ToLowercase(extension[1])}}

\* C17: detect_file_type returns `License`, `Build Script`, `Build Script`
\* and `CMake` for a file name that is LICENSE, Dockerfile, Makefile or
\* CMakeLists.txt in any case, whatever its extension; for any other name
\* the one label the table has for its lower-cased extension; and none for
\* an extension the table lacks, for a name without an extension and for a
\* path without a file name.
C17_Classification ==
    op.name = "detect" =>
        LET upper == ToUppercase(FileName(op.file_path))
            labels == TableLabels(op.file_path)
        IN  IF upper = <<>> THEN ret = None
            ELSE IF upper = <<"L", "I", "C", "E", "N", "S", "E">> THEN ret = "License"
            ELSE IF upper = <<"D", "O", "C", "K", "E", "R", "F", "I", "L", "E">>
            THEN ret = "Build Script"
            ELSE IF upper = <<"M", "A", "K", "E", "F", "I", "L", "E">>
            THEN ret = "Build Script"
            ELSE IF upper = <<"C", "M", "A", "K", "E", "L", "I", "S", "T", "S", ".", "T", "X", "T">>
            THEN ret = "CMake"
            ELSE IF labels = {} THEN ret = None
            ELSE labels = {ret}

\* cmakelists.txt below a directory was classified by its name, not by its
\* extension.
C17_Witness ==
    /\ op.name = "detect"
    /\ op.file_path = <<"d", "o", "c", "s", "/", "C", "M", "a", "k", "e", "L", "i", "s", "t", "s", ".", "t", "x", "t">>
    /\ ret = "CMake"
    /\ TableLabels(op.file_path) = {"Documentation"}

\* The tree of HEAD, empty before the first commit.
HeadTree == IF head = 0 THEN EmptyTree ELSE commits[head].tree

\* Two contents that differ at most in CR LF against LF.
SameButEol(a, b) == normalize_eol(a) = normalize_eol(b)

\* is_dirty has answered for a repository.
DirtyAnswered == op.name = "is_dirty" /\ repo

\* A repository without commits is not dirty.
NoCommitsClean == (DirtyAnswered /\ head = 0) => ret = "false"

\* Nothing staged and every file of HEAD in the working tree with the bytes
\* of HEAD up to line endings: not dirty, whatever untracked files there are.
EolAndUntrackedClean ==
    (/\ DirtyAnswered
     /\ head # 0
     /\ index = HeadTree
     /\ \A p \in DOMAIN HeadTree :
           p \in DOMAIN wt /\ SameButEol(wt[p], HeadTree[p]))
        => ret = "false"

\* A file of HEAD that is missing from the working tree, or there with
\* other bytes than line endings explain: dirty.
ContentChangeDirty ==
    (/\ DirtyAnswered
     /\ \E p \in DOMAIN HeadTree :
           p \notin DOMAIN wt \/ ~SameButEol(wt[p], HeadTree[p]))
        => ret = "true"

\* A staged file that is not in HEAD: dirty.
NewlyStagedDirty ==
    (/\ DirtyAnswered
     /\ head # 0
     /\ (DOMAIN index) \ (DOMAIN HeadTree) # {})
        => ret = "true"

\* C18: is_dirty answers false for a repository without commits and for one
\* whose tracked files differ from HEAD at most in CR LF against LF line
\* endings, untracked files or not; it answers true when a tracked file is
\* missing from the working tree or has any other content change, and when
\* a file that is not in HEAD is staged.
C18_DirtyClassification ==
    /\ NoCommitsClean
    /\ EolAndUntrackedClean
    /\ ContentChangeDirty
    /\ NewlyStagedDirty

\* C19: whenever the index holds, for a path of HEAD, content that differs
\* from HEAD by more than line endings, is_dirty answers true, whatever the
\* working tree holds for that path.
C19_StagedModificationDirty ==
    (/\ DirtyAnswered
     /\ \E p \in (DOMAIN index) \cap (DOMAIN HeadTree) :
           ~SameButEol(index[p], HeadTree[p]))
        => ret = "true"

\* What is left of a string after its leading `v`s.
AfterLeadingVs(s) == Drop(s, Len(TakeWhile(s, {"v"})))

\* The position of the first ch of s, 0 without one.
FirstIndex(s, ch) ==
    LET hits == {i \in 1..Len(s) : s[i] = ch}
    IN  IF hits = {} THEN 0 ELSE CHOOSE i \in hits : \A j \in hits : i <= j

\* Dot-separated identifiers of letters, digits and hyphens, none empty.
IdentifierList(s) ==
    /\ s # <<>>
    /\ \A i \in 1..Len(Split(s, ".")) :
          LET segment == Split(s, ".")[i]
          IN  /\ segment # <<>>
              /\ \A j \in 1..Len(segment) : segment[j] \in IdentifierChars

\* A strict semantic version: major.minor.patch, each a number of a u64
\* without leading zeros; after a `-` pre-release identifiers, the numeric
\* ones without leading zeros; after a `+` build identifiers.
StrictSemver(s) ==
    LET plus == FirstIndex(s, "+")
        main == IF plus = 0 THEN s ELSE SubSeq(s, 1, plus - 1)
        build == IF plus = 0 THEN <<>> ELSE Drop(s, plus)
        dash == FirstIndex(main, "-")
        core == IF dash = 0 THEN main ELSE SubSeq(main, 1, dash - 1)
        pre == IF dash = 0 THEN <<>> ELSE Drop(main, dash)
        numbers == Split(core, ".")
    IN  /\ Len(numbers) = 3
        /\ \A i \in 1..3 : NumericIdentifier(numbers[i]) /\ FitsU64(numbers[i])
        /\ plus # 0 => IdentifierList(build)
        /\ dash # 0 =>
              /\ IdentifierList(pre)
              /\ \A i \in 1..Len(Split(pre, ".")) :
                    LET segment == Split(pre, ".")[i]
                    IN  (\A j \in 1..Len(segment) : segment[j] \in Digits)
                           => NumericIdentifier(segment)

\* C20: for every input, with its surrounding whitespace and its leading
\* `v`s taken off: when the rest is a strict semantic version,
\* normalize_semver_tag returns the tag `v` followed by it, and normalizing
\* that tag returns the same tag; otherwise it returns an error, and a
\* tag_release given the input as its version fails and leaves the tags as
\* they are.
C20_NormalizeSemverTag ==
    /\ [](op.name = "normalize" =>
            LET rest == AfterLeadingVs(Trim(op.input))
            IN  IF StrictSemver(rest)
                THEN /\ ret = "ok"
                     /\ out.tag = <<"v">> \o rest
                     /\ normalize_semver_tag(out.tag) = [ok |-> TRUE, tag |-> out.tag]
                ELSE /\ ret = ParseError
                     /\ out.tag = <<>>)
    /\ [][(op'.name = "tag" /\ repo) =>
             LET rest == AfterLeadingVs(Trim(op'.version[1]))
             IN  IF StrictSemver(rest)
                 THEN ret' = "ok" => DOMAIN tags' = (DOMAIN tags) \cup {<<"v">> \o rest}
                 ELSE ret' = ParseError /\ tags' = tags
         ]_vars

\* A padded string with two leading `v`s, a pre-release and build metadata
\* with a leading zero was normalized.
C20_Witness ==
    /\ op.name = "normalize"
    /\ op.input = <<" ", "v", "v", "1", ".", "0", ".", "0", "-", "r", "c", ".", "1",
                    "+", "0", "0", "7", "CR", "LF">>
    /\ ret = "ok"
    /\ out.tag = <<"v", "1", ".", "0", ".", "0", "-", "r", "c", ".", "1", "+", "0",
                   "0", "7">>

(***************************************************************************)
(* Remotes.                                                                *)
(***************************************************************************)
\* C21: add_remote on a repository succeeds for every valid name, however
\* often it is called, and leaves one remote of that name: a remote that
\* exists keeps its URL whichever URL is passed, one that does not is
\* registered with the URL passed; no other remote changes.
C21_AddRemoteIdempotent ==
    [][(op'.name = "add_remote" /\ repo /\ ValidRemoteName(op'.remote_name)) =>
          /\ ret' = "ok"
          /\ DOMAIN remotes' = DOMAIN remotes \cup {op'.remote_name}
          /\ \A n \in DOMAIN remotes : remotes'[n] = remotes[n]
          /\ op'.remote_name \notin DOMAIN remotes =>
                 remotes'[op'.remote_name] = op'.remote_url]_vars

\* add_remote was called with another URL for a remote that exists.
C21_Witness ==
    /\ op.name = "add_remote"
    /\ op.remote_name = "origin"
    /\ op.remote_url = OtherUrl
    /\ ret = "ok"
    /\ "origin" \in DOMAIN remotes
    /\ remotes["origin"] = HostedUrl

(***************************************************************************)
(* Snapshots.                                                              *)
(***************************************************************************)
\* The directories above the paths of a tree, the top one included.
Subtrees(tree) ==
    {<<>>} \cup UNION {{SubSeq(PathComponents(p), 1, n) :
                           n \in 0..(Len(PathComponents(p)) - 1)} : p \in DOMAIN tree}

\* C22: after checkout_tree_to_dir of a commit's tree into an empty
\* directory, every blob of the tree is a file at its path below the
\* directory with the blob's bytes, at every depth; there is a directory
\* for every subtree; and the directory holds no other file.
C22_CheckoutRoundTrip ==
    op.name = "checkout" =>
        LET tree == commits[op.commit].tree
        IN  /\ OutDir \in DOMAIN tempDirs
            /\ \A p \in DOMAIN tree : /\ p \in DOMAIN tempDirs[OutDir]
                                       /\ tempDirs[OutDir][p] = tree[p]
            /\ DOMAIN tempDirs[OutDir] \subseteq DOMAIN tree
            /\ out.dirs = Subtrees(tree)

\* A tree with blobs at depth one, two and three was checked out.
C22_Witness ==
    /\ op.name = "checkout"
    /\ DOMAIN commits[op.commit].tree = {"a.rs", "docs/c.md", "src/m/d.rs"}
    /\ tempDirs[OutDir]["src/m/d.rs"] = TextXCrLf
    /\ <<<<"s", "r", "c">>, <<"m">>>> \in out.dirs
\* A two-index diff leaves two different snapshot directories, each with the
\* tree of its commit.
TwoIndexSnapshots ==
    (op.name = "diff" /\ ret = "ok" /\ Len(op.versions) = 2) =>
        /\ out.before.dir # out.after.dir
        /\ {out.before.dir, out.after.dir} \subseteq DOMAIN tempDirs
        /\ ~op.dry_run => /\ tempDirs[out.before.dir] = commits[out.before.commit].tree
                          /\ tempDirs[out.after.dir] = commits[out.after.commit].tree

\* C23: create_temp_dir never returns a path it has returned before, also
\* for the same prefix, and a two-index diff, equal indices included,
\* materializes two different temporary directories that hold the trees of
\* the two commits.
C23_FreshTempDirs ==
    /\ [][op'.name = "create_temp_dir" => op'.path \notin DOMAIN tempDirs]_vars
    /\ []TwoIndexSnapshots

(***************************************************************************)
(* The hosted head.                                                        *)
(***************************************************************************)
\* The selector lists for which diff_command asks for the hosted head.
HostedForm(v) == (Len(v) = 2 /\ IsH(v[1])) \/ (Len(v) = 1 /\ IsL(v[1]))

\* The call that ran asked for the head of the hosted remote.
AsksRemoteHead(o) ==
    o.name = "remote_head" \/ (o.name = "diff" /\ HostedForm(o.versions))

\* The commit the call resolved the hosted head to, 0 for none.
RemoteHeadOf(o, r, produced) ==
    IF o.name = "remote_head" THEN (IF r = "ok" THEN produced.commit ELSE 0)
    ELSE produced.before.commit

RemoteHeadResolves(o) ==
    /\ "origin" \in DOMAIN remotes
    /\ o.fetch_ok
    /\ originHead = "symbolic" \/ o.show_ok
    /\ originTip # 0

C26_DetachedHeadNotPushed ==
    [][(op'.name = "push" /\ repo /\ head # 0 /\ detached) =>
          /\ ret' # "ok"
          /\ originTip' = originTip]_vars

\* A detached HEAD ahead of the remote's branch was refused with the remote
\* reachable at every command.
C26_Witness ==
    /\ op.name = "push"
    /\ detached
    /\ op.ls_ok /\ op.pull_ok /\ op.push_ok
    /\ ret = PushFailed
    /\ originTip # 0
    /\ originTip \in Reachable(commits, head) \ {head}

\* The current branch has a branch of its name on the remote.
HasCounterpart == "origin" \in DOMAIN remotes /\ originTip # 0 /\ ~detached

\* C27: on a repository with a commit, gh_fetch returns 'git fetch failed'
\* when the fetch fails, and after a fetch that succeeded returns success
\* without listing commits when the current branch has no counterpart on
\* the remote; gh_sync returns success without a pull when the branch has
\* no counterpart and also when `git ls-remote` fails, and returns 'git
\* pull failed' only after a pull for a branch that exists, and always when
\* that pull cannot reach the remote.
C27_MissingRemoteBranch ==
    [][(op'.name \in {"fetch", "sync"} /\ repo /\ head # 0) =>
          LET fetched == op'.fetch_ok /\ "origin" \in DOMAIN remotes
          IN  /\ (op'.name = "fetch" /\ ~fetched) =>
                     /\ ret' = "git fetch failed"
                     /\ out'.cmds = <<"git fetch">>
              /\ (op'.name = "fetch" /\ fetched /\ ~HasCounterpart) =>
                     /\ ret' = "ok"
                     /\ "git log" \notin Members(out'.cmds)
              /\ (op'.name = "sync" /\ (~HasCounterpart \/ ~op'.ls_ok)) =>
                     /\ ret' = "ok"
                     /\ "git pull" \notin Members(out'.cmds)
                     /\ UNCHANGED <<wt, index, commits, head, trackTip>>
              /\ (op'.name = "sync" /\ ret' = "git pull failed") =>
                     /\ HasCounterpart
                     /\ op'.ls_ok
                     /\ "git pull" \in Members(out'.cmds)
                     /\ head' = head
              /\ (op'.name = "sync" /\ HasCounterpart /\ op'.ls_ok /\ ~op'.pull_ok) =>
                     ret' = "git pull failed"]_vars

\* gh_sync returned success without a pull because ls-remote failed, while
\* the remote's branch held a commit the clone does not have.
C27_Witness ==
    /\ op.name = "sync"
    /\ ~op.ls_ok
    /\ ret = "ok"
    /\ HasCounterpart
    /\ originTip \notin Reachable(commits, head)
    /\ out.cmds = <<"git ls-remote">>

(***************************************************************************)
(* Order of effects.                                                       *)
(***************************************************************************)
\* C28: a real run of tag_release with push requested that gets to `git tag`
\* creates or moves the tag before it looks the remote up: it returns
\* 'remote not found' when the remote is not configured, and may return
\* 'failed to push tag', and in both cases the tag stays at HEAD and the
\* remote's tags are unchanged; a later run for the same version without
\* force returns 'already exists' and changes no tag.
C28_FailedPushKeepsTag ==
    /\ [][(op'.name = "tag" /\ CreatesTag /\ op'.push) =>
             /\ tags' = WithFile(tags, TagV100, head)
             /\ "origin" \notin DOMAIN remotes => ret' = RemoteNotFound
             /\ ret' \in {"ok", RemoteNotFound, "failed to push tag"}
             /\ ret' # "ok" => originTags' = originTags]_vars
    /\ [][(/\ op'.name = "tag"
           /\ repo
           /\ PassesDirtyGate(op'.build, op'.allow_dirty)
           /\ op'.version \in {Some(Version100), Some(VersionV100), Absent}
           /\ TagV100 \in DOMAIN tags
           /\ ~op'.force) =>
             /\ ret' = TagExistsError
             /\ tags' = tags]_vars

\* A forced run moved the tag and then failed to push it: the remote still
\* has the tag at the older commit.
C28_Witness ==
    /\ op.name = "tag"
    /\ op.push
    /\ op.force
    /\ ret = "failed to push tag"
    /\ TagV100 \in DOMAIN tags
    /\ tags[TagV100] = head
    /\ TagV100 \in DOMAIN originTags
    /\ originTags[TagV100] # head

\* C29: a two-selector diff whose first selector is an index of the history
\* and whose second selector is no number or is out of range returns 'invalid
\* repo indexes specified' with exactly one temporary directory made, the
\* before directory, empty in a dry run and holding the tree of the before
\* commit otherwise; no after snapshot exists and no diff tool was launched.
C29_BeforeSnapshotThenSecondSelector ==
    (/\ op.name = "diff"
     /\ repo
     /\ Len(op.versions) = 2
     /\ ~HostedRequest(op.versions)
     /\ ResolveSelector(op.versions[1]).ok
     /\ ~ResolveSelector(op.versions[2]).ok) =>
        /\ ret = InvalidIndexes
        /\ out.before = Snapshot(ResolveSelector(op.versions[1]).commit, out.before.dir)
        /\ out.before.dir[1] = "before"
        /\ DOMAIN tempDirs = {out.before.dir}
        /\ tempDirs[out.before.dir] =
              IF op.dry_run THEN EmptyTree ELSE commits[out.before.commit].tree
        /\ out.after = NoSnapshot
        /\ out.cmds = <<>>

\* A real run whose second index is a number beyond the history: the before
\* directory holds the files of the before commit.
C29_Witness ==
    /\ op.name = "diff"
    /\ ~op.dry_run
    /\ Len(op.versions) = 2
    /\ op.versions[1] = <<"0">>
    /\ ParseI32(op.versions[2]).ok
    /\ ret = InvalidIndexes
    /\ DOMAIN tempDirs = {out.before.dir}
    /\ tempDirs[out.before.dir] # EmptyTree

\* C30: no commit of new_repository or update_repository has a .gitignore
\* in its tree, and neither stages one: not the file the tool writes, and
\* not one the user wrote before or rewrote after.
C30_IgnoreFileNeverCommitted ==
    /\ detect_file_type(JoinPath(RepoDir, PathChars(".gitignore"))) = None
    /\ ".gitignore" \notin DOMAIN index
    /\ \A c \in 1..Len(commits) : ".gitignore" \notin DOMAIN commits[c].tree

\* update_repository committed a change while the ignore file written by
\* new_repository lay in the working tree.
C30_Witness ==
    /\ op.name = "update"
    /\ ~op.dry_run
    /\ Len(commits) >= 2
    /\ commits[head].parents # <<>>
    /\ ".gitignore" \in DOMAIN wt
    /\ wt[".gitignore"] = GitignoreContent
    /\ "a.rs" \in DOMAIN commits[head].tree

====
